---- MODULE Spec2Model ----
(***************************************************************************)
(* Model of transcribe-rs.                                                 *)
(*                                                                         *)
(* Realtime session (src/src/realtime.rs): RealtimeSession aggregates      *)
(* audio chunks in a bounded buffer, asks a RealtimeTranscriber for a      *)
(* transcript of the whole buffer, stitches the result into the published  *)
(* transcript and emits outbound messages.                                 *)
(*                                                                         *)
(* Representation.                                                         *)
(*  - An f32 number of seconds is an integer number of ticks of 2^-25 s.   *)
(*    Every f32 in [2^-25, 2^6) that is a multiple of 2^-25 is such an     *)
(*    integer; F32 rounds an exact result to the nearest representable     *)
(*    value (ties to even), as the hardware does.                          *)
(*  - A String is a sequence of one-character strings, so trim and join    *)
(*    are computed character by character. Error texts, which the session  *)
(*    only concatenates, are TLA+ strings.                                 *)
(***************************************************************************)
EXTENDS Integers, Sequences, FiniteSets, TLC

(***************************************************************************)
(* f32 arithmetic                                                          *)
(***************************************************************************)

\* One second in ticks: 2^25, the resolution of an f32 in [0.25, 0.5).
SECOND == 2^25

Abs(x) == IF x < 0 THEN -x ELSE x

Max(a, b) == IF a >= b THEN a ELSE b

\* Spacing of the f32 values around a magnitude (in ticks): 24 significant bits.
RECURSIVE Ulp(_)
Ulp(mag) == IF mag < 2^24 THEN 1 ELSE 2 * Ulp(mag \div 2)

\* Round an exact value (in ticks) to the nearest f32, ties to even.
F32(x) ==
    LET mag == Abs(x)
        u   == Ulp(mag)
        q   == mag \div u
        r   == mag % u
        up  == (2 * r > u) \/ (2 * r = u /\ q % 2 = 1)
        m   == IF up THEN (q + 1) * u ELSE q * u
    IN  IF x < 0 THEN -m ELSE m

\* a + b on f32 operands.
F32Add(a, b) == F32(a + b)

\* a - b on f32 operands.
F32Sub(a, b) == F32(a - b)

\* f32::max on non-NaN operands.
F32Max(a, b) == Max(a, b)

\* The quotient a / d of two positive integers as an f32 with a
\* significand sig and an exponent exp (the value is sig * 2^exp): the first 24
\* significant bits by long division, then rounding to nearest, ties to even.
RECURSIVE quotient_bits(_, _, _, _)
quotient_bits(q, r, d, shift) ==
    IF q >= 2^23 THEN [q |-> q, r |-> r, shift |-> shift]
    ELSE LET bit == IF 2 * r >= d THEN 1 ELSE 0
         IN  quotient_bits(2 * q + bit, 2 * r - bit * d, d, shift + 1)

F32Quotient(a, d) ==
    LET bits    == quotient_bits(a \div d, a % d, d, 0)
        up      == 2 * bits.r > d \/ (2 * bits.r = d /\ bits.q % 2 = 1)
        rounded == IF up THEN bits.q + 1 ELSE bits.q
    IN  IF rounded = 2^24 THEN [sig |-> 2^23, exp |-> 1 - bits.shift]
        ELSE [sig |-> rounded, exp |-> -bits.shift]

\* (n as f32) / (d as f32) for sample counts n, d whose quotient is a whole
\* number of ticks or at least 0.25: the quotient rounded to the nearest f32,
\* ties to even.
F32Div(n, d) ==
    LET u  == Ulp((n * SECOND) \div d)
        q  == (n * SECOND) \div (d * u)
        r  == (n * SECOND) % (d * u)
        up == (2 * r > d * u) \/ (2 * r = d * u /\ q % 2 = 1)
    IN  IF up THEN (q + 1) * u ELSE q * u

(***************************************************************************)
(* Strings                                                                 *)
(***************************************************************************)

\* char::is_whitespace on the characters the model uses.
IsWhitespace(c) == c \in {" ", "\t", "\n"}

RECURSIVE trim_start(_)
trim_start(s) ==
    IF s # <<>> /\ IsWhitespace(Head(s)) THEN trim_start(Tail(s)) ELSE s

RECURSIVE trim_end(_)
trim_end(s) ==
    IF s # <<>> /\ IsWhitespace(s[Len(s)])
    THEN trim_end(SubSeq(s, 1, Len(s) - 1))
    ELSE s

\* str::trim
trim(s) == trim_end(trim_start(s))

\* [&str]::join
RECURSIVE join(_, _)
join(pieces, sep) ==
    IF pieces = <<>> THEN <<>>
    ELSE IF Len(pieces) = 1 THEN pieces[1]
    ELSE pieces[1] \o sep \o join(Tail(pieces), sep)

(***************************************************************************)
(* Bounds and inputs                                                       *)
(***************************************************************************)

\* Most samples a session ingests between two Resets.
MaxIngested == 3

\* Most samples a session with a buffer of MaxIngested samples or more
\* ingests beyond what its buffer holds.
MaxExcess == 1

\* Sample rates given to with_sample_rate (0 is raised to 1 by the code).
SampleRates == {0, 2}

\* Sample rates of the sessions whose buffer accounting is followed: a power
\* of two, and one by which a sample count does not divide exactly.
BufferRates == {0, 3}

\* Buffer durations, in seconds, given to with_sample_rate.
BufferDurations == {1}

\* Option<String>: None is the empty sequence, Some(s) is <<s>>.
Languages == {<<>>, <<"en">>}

\* The sample vectors a Chunk message can carry.
ChunkSamples == {<<>>, <<1>>, <<2, 3>>, <<4, 5, 6>>}

Segment(start, end, text) == [start |-> start, end |-> end, text |-> text]

\* Segments a transcriber returns, in seconds from the start of the buffer
\* it was given; each has start <= end, and all but SegN have 0 <= start.
SegA == Segment(0, SECOND \div 2, <<"a">>)

\* SegA moved by one tick, less than f32::EPSILON.
SegA1 == Segment(1, SECOND \div 2, <<"a">>)

\* Within 0.25 s of SegA at both ends, with a padded text.
SegB == Segment(SECOND \div 8, SECOND \div 2, <<" ", "b", " ">>)

\* Starts with SegA and ends 0.5 s after it.
SegC == Segment(0, SECOND, <<"b">>)

\* More than 1.5 s after the others, with a text of whitespace only.
SegF == Segment(2 * SECOND, 2 * SECOND + SECOND \div 2, <<" ">>)

\* A segment the transcriber places before the start of the buffer.
SegN == Segment(-(SECOND \div 2), SECOND \div 4, <<"n">>)

\* Two segments the transcriber places 3/16 s and 1/8 s before the start of
\* the buffer; their ends are 0.25 s apart, so the second does not replace
\* the first.
SegX == Segment(-(3 * (SECOND \div 16)), SECOND, <<"x">>)

SegY == Segment(-(SECOND \div 8), SECOND + SECOND \div 4, <<"y">>)

\* Starts with the buffer; within 0.25 s of SegX and of SegY at both ends.
SegR == Segment(0, SECOND + SECOND \div 8, <<"r">>)

\* A result whose segments drift backwards by 7/32 s each, from 2.0 s down
\* to 0.46875 s; each is within 0.25 s of the one before it.
DriftingSegments ==
    [k \in 1..8 |->
        Segment(2 * SECOND - (k - 1) * 7 * (SECOND \div 32),
                2 * SECOND - (k - 1) * 7 * (SECOND \div 32) + SECOND \div 2,
                <<"a">>)]

\* The segment lists of the results the transcriber can return.
ResultSegmentLists ==
    { <<>>, <<SegA>>, <<SegA1>>, <<SegB>>, <<SegC>>,
      <<SegA, SegB>>, <<SegA, SegF>>, <<SegF, SegA>>, <<SegN>>, <<SegA, SegA1>>,
      DriftingSegments }

\* TranscriptionResult values the transcriber can return. The text field is
\* never the text of a segment.
Results ==
    {[text |-> <<"x">>, segments |-> s] : s \in ResultSegmentLists}
        \cup {[text |-> <<>>, segments |-> <<>>]}

\* Display texts of the errors the transcriber can return.
ErrorTexts == {"mock failure", "no mock response configured"}

\* Result<TranscriptionResult, Box<dyn Error>>
Responses ==
    {[ok |-> TRUE, result |-> r] : r \in Results}
        \cup {[ok |-> FALSE, error |-> e] : e \in ErrorTexts}

\* No transcriber call was made.
NoResponse == [ok |-> FALSE, error |-> ""]

(***************************************************************************)
(* RealtimeSession                                                         *)
(***************************************************************************)

VARIABLES
    language,             \* Option<String> forced language
    samples,              \* the audio buffer
    sample_rate,
    max_buffer_samples,
    timeline_offset,      \* seconds trimmed from the front of the buffer
    published_segments,
    published_text,
    last_sent_segments,
    last_sent_text,
    inbound,              \* the InboundMessage handled last
    response,             \* what the transcriber returned to that handler
    outbound,             \* the Vec<OutboundMessage> that handler returned
    calls,                \* the transcriber calls that handler made
    ingested,             \* samples ingested since construction or Reset
    last_emitted,         \* Transcripts emitted since construction or Reset: the last one
    failed,               \* has a transcription failed since construction or Reset?
    returned              \* "ok" or "err": the Result that handler returned

(***************************************************************************)
(* State of the other components: the engine facade (engines/), the        *)
(* Parakeet decode loop and vocabulary (parakeet_engine.rs) and the audio  *)
(* loader (audio.rs). Each component has its own specification below; the  *)
(* others rest in their idle state while it runs.                          *)
(***************************************************************************)

VARIABLES
    engine_kind,          \* "parakeet" or "whisper"
    loaded_model_path,    \* Option<PathBuf>
    model,                \* ParakeetEngine: Option<ParakeetModel>
    state,                \* WhisperEngine: Option<WhisperState>
    context,              \* WhisperEngine: Option<WhisperContext>
    engine_call,          \* the facade method called last
    engine_returned,      \* what it returned
    backend_log,          \* what that call did to backend models, in order
    ever_loaded           \* has a load succeeded on this engine?

VARIABLES
    wav_file,             \* the file read_wav_samples is given
    wav_returned          \* what read_wav_samples returned

VARIABLES
    vocab_file,           \* vocab.txt as load_vocab finds it
    vocab_returned        \* what load_vocab returned

VARIABLES
    detok_text,           \* a concatenation of token strings
    detok_passes          \* the results of applying the space rule to it, in order

VARIABLES
    vocab,                \* ParakeetModel::vocab
    blank_idx,            \* ParakeetModel::blank_idx
    encodings_len,        \* number of encoder frames
    prev_state,           \* decode_sequence: the decoder state
    tokens,               \* decode_sequence: emitted token ids
    timestamps,           \* decode_sequence: the frame of each emitted token
    t,                    \* decode_sequence: the current frame
    emitted_tokens,       \* decode_sequence: tokens emitted on the current frame
    decode_pc,            \* "idle", "loop", "returned", "failed" or "done"
    decode_step,          \* the last decode_step call and the token chosen from it
    decode_calls,         \* decode_sequence: decode_step calls made so far
    decode_result         \* the TimestampedResult of decode_tokens

VARIABLES
    convert_input,        \* the TimestampedResult convert_timestamps is given
    convert_returned      \* the granularity asked for and the segments returned


VARIABLES
    construct_call,       \* the constructor of RealtimeSession called and its arguments
    constructed           \* the session it returned

VARIABLES
    cli_pc,               \* realtime_cli main: "none", "start", "read", "handle", "send", "exited" or "failed"
    stdin,                \* the lines not yet read
    cli_line,             \* the line read last and its number
    cli_message,          \* the InboundMessage parsed from it
    cli_pending,          \* responses of the handler not yet written
    stdout,               \* the messages written, each with the number of the line it answers
    cli_before            \* the session when the line was read


session_vars == <<language, samples, sample_rate, max_buffer_samples, timeline_offset,
                  published_segments, published_text, last_sent_segments,
                  last_sent_text, inbound, response, outbound, calls, ingested,
                  last_emitted, failed, returned>>

engine_vars == <<engine_kind, loaded_model_path, model, state, context,
                 engine_call, engine_returned, backend_log, ever_loaded>>

wav_vars == <<wav_file, wav_returned>>

vocab_vars == <<vocab_file, vocab_returned>>

detok_vars == <<detok_text, detok_passes>>

decode_vars == <<vocab, blank_idx, encodings_len, prev_state, tokens, timestamps,
                 t, emitted_tokens, decode_pc, decode_step, decode_calls,
                 decode_result>>

convert_vars == <<convert_input, convert_returned>>

construct_vars == <<construct_call, constructed>>

\* No session is being constructed.
ConstructIdle ==
    /\ construct_call = [op |-> "none"]
    /\ constructed = [called |-> FALSE]

\* convert_timestamps is not running.
ConvertIdle ==
    /\ convert_input = [text |-> <<>>, timestamps |-> <<>>, tokens |-> <<>>]
    /\ convert_returned = [called |-> FALSE]


cli_vars == <<cli_pc, stdin, cli_line, cli_message, cli_pending, stdout, cli_before>>

\* No realtime_cli process runs.
CliIdle ==
    /\ cli_pc = "none"
    /\ stdin = <<>>
    /\ cli_line = [number |-> 0]
    /\ cli_message = [type |-> "none"]
    /\ cli_pending = <<>>
    /\ stdout = <<>>
    /\ cli_before = <<>>


\* No engine value exists.
EngineIdle ==
    /\ engine_kind = "none"
    /\ loaded_model_path = <<>>
    /\ model = <<>>
    /\ state = <<>>
    /\ context = <<>>
    /\ engine_call = [op |-> "none"]
    /\ engine_returned = [ok |-> TRUE]
    /\ backend_log = <<>>
    /\ ever_loaded = FALSE

\* read_wav_samples is not running.
WavIdle ==
    /\ wav_file = [opens |-> FALSE]
    /\ wav_returned = [called |-> FALSE]

\* load_vocab is not running.
VocabIdle ==
    /\ vocab_file = [readable |-> FALSE]
    /\ vocab_returned = [called |-> FALSE]

\* No text is being detokenized.
DetokIdle ==
    /\ detok_text = <<>>
    /\ detok_passes = <<>>

\* No ParakeetModel is decoding.
DecodeIdle ==
    /\ vocab = <<>>
    /\ blank_idx = 0
    /\ encodings_len = 0
    /\ prev_state = 0
    /\ tokens = <<>>
    /\ timestamps = <<>>
    /\ t = 0
    /\ emitted_tokens = 0
    /\ decode_pc = "idle"
    /\ decode_step = [called |-> FALSE]
    /\ decode_calls = 0
    /\ decode_result = [called |-> FALSE]

session == <<language, samples, sample_rate, max_buffer_samples, timeline_offset,
             published_segments, published_text, last_sent_segments, last_sent_text>>

\* What a session's handler leaves alone.
outside_session ==
    <<engine_vars, wav_vars, vocab_vars, detok_vars, decode_vars, convert_vars, construct_vars>>

vars == <<session_vars, engine_vars, wav_vars, vocab_vars, detok_vars, decode_vars,
          convert_vars, construct_vars, cli_vars>>

MERGE_BACKTRACK_SECONDS == 3 * (SECOND \div 2)

\* 0.25 s, the stitching tolerance of merge_segments.
STITCH_TOLERANCE == SECOND \div 4

\* f32::EPSILON = 2^-23
F32_EPSILON == 4

\* A usize given to or made by the constructor is kept as its digits in base
\* 2^15, least significant first and without a zero as last digit (0 is
\* <<>>): the integers of TLC end at 2^31 - 1, usize at 2^64 - 1 (a 64-bit
\* target), and a product of two digits fits the former.
Limb == 2^15

\* The usize of a number below 2^31.
RECURSIVE Usize(_)
Usize(n) == IF n = 0 THEN <<>> ELSE <<n % Limb>> \o Usize(n \div Limb)

\* The number of a usize below 2^31.
RECURSIVE UsizeValue(_)
UsizeValue(u) == IF u = <<>> THEN 0 ELSE u[1] + Limb * UsizeValue(Tail(u))

\* The digits without zeros at the most significant end.
RECURSIVE StripZeros(_)
StripZeros(u) ==
    IF u # <<>> /\ u[Len(u)] = 0 THEN StripZeros(SubSeq(u, 1, Len(u) - 1)) ELSE u

\* a + b + carry, digit by digit.
RECURSIVE DigitsSum(_, _, _)
DigitsSum(a, b, carry) ==
    IF a = <<>> /\ b = <<>>
    THEN IF carry = 0 THEN <<>> ELSE <<carry>>
    ELSE LET x == IF a = <<>> THEN 0 ELSE a[1]
             y == IF b = <<>> THEN 0 ELSE b[1]
             s == x + y + carry
         IN  <<s % Limb>> \o DigitsSum(IF a = <<>> THEN <<>> ELSE Tail(a),
                                        IF b = <<>> THEN <<>> ELSE Tail(b),
                                        s \div Limb)

\* a * digit + carry, digit by digit.
RECURSIVE TimesDigit(_, _, _)
TimesDigit(a, digit, carry) ==
    IF a = <<>>
    THEN IF carry = 0 THEN <<>> ELSE <<carry>>
    ELSE LET p == a[1] * digit + carry
         IN  <<p % Limb>> \o TimesDigit(Tail(a), digit, p \div Limb)

\* The product of two usize values, of any size.
RECURSIVE Product(_, _)
Product(a, b) ==
    IF b = <<>> THEN <<>>
    ELSE StripZeros(DigitsSum(TimesDigit(a, b[1], 0), <<0>> \o Product(a, Tail(b)), 0))

\* a < b
Less(a, b) ==
    IF Len(a) # Len(b) THEN Len(a) < Len(b)
    ELSE \E i \in 1..Len(a) :
             /\ a[i] < b[i]
             /\ \A j \in (i + 1)..Len(a) : a[j] = b[j]

\* usize::MAX = 2^64 - 1
USIZE_MAX == <<32767, 32767, 32767, 32767, 15>>

\* usize::max
usize_max(a, b) == IF Less(a, b) THEN b ELSE a

\* usize::saturating_mul
saturating_mul(a, b) ==
    LET product == Product(a, b)
    IN  IF Less(USIZE_MAX, product) THEN USIZE_MAX ELSE product

\* The construction without the floors of 1 on its two arguments.
with_sample_rate_NoFloor(lang, rate, max_buffer_duration_secs) ==
    [ language            |-> lang,
      samples             |-> <<>>,
      sample_rate         |-> rate,
      max_buffer_samples  |-> saturating_mul(rate, max_buffer_duration_secs),
      timeline_offset     |-> 0,
      published_segments  |-> <<>>,
      published_text      |-> <<>>,
      last_sent_segments  |-> <<>>,
      last_sent_text      |-> <<>> ]

\* RealtimeSession::with_sample_rate: the fields of the new session.
with_sample_rate(lang, rate, max_buffer_duration_secs) ==
    LET sr           == usize_max(rate, Usize(1))
        max_duration == usize_max(max_buffer_duration_secs, Usize(1))
        max_samples  == saturating_mul(sr, max_duration)
    IN  [ language            |-> lang,
          samples             |-> <<>>,
          sample_rate         |-> sr,
          max_buffer_samples  |-> max_samples,
          timeline_offset     |-> 0,
          published_segments  |-> <<>>,
          published_text      |-> <<>>,
          last_sent_segments  |-> <<>>,
          last_sent_text      |-> <<>> ]

\* The session with_sample_rate returns for a rate and a duration below
\* 2^31 whose product is below 2^31: the variables sample_rate and
\* max_buffer_samples hold the two usize fields as numbers.
session_of(lang, rate, max_buffer_duration_secs) ==
    LET new == with_sample_rate(lang, Usize(rate), Usize(max_buffer_duration_secs))
    IN  [new EXCEPT !.sample_rate = UsizeValue(@),
                    !.max_buffer_samples = UsizeValue(@)]

OutboundTranscript(text, segments) ==
    [type |-> "transcript", text |-> text, segments |-> segments]

OutboundStatus(message) == [type |-> "status", message |-> message]

OutboundError(message) == [type |-> "error", message |-> message]

\* An error message that drops the underlying error text.
ErrorMessage_NoCause(err) == "transcription failed: "

\* The message of the Error emitted for a transcriber error.
ErrorMessage(err) == "transcription failed: " \o err

\* An error arm that passes the transcriber's error on to the caller, as `?`
\* would.
transcribe_failed_Propagates(err) == [returned |-> "err", messages |-> <<>>]

\* handle_inbound, Chunk: what the handler returns when the transcriber
\* fails, Ok(vec![OutboundMessage::Error { .. }]).
transcribe_failed(err) ==
    [returned |-> "ok", messages |-> <<OutboundError(ErrorMessage(err))>>]

\* push_samples that appends and never drains.
push_samples_NoDrain(incoming) ==
    [ samples |-> samples \o incoming, timeline_offset |-> timeline_offset ]

\* push_samples that moves the offset by the length of the extended buffer.
push_samples_OffsetOfLength(incoming) ==
    LET extended == samples \o incoming
    IN  IF Len(extended) > max_buffer_samples
        THEN LET excess == Len(extended) - max_buffer_samples
                 offset == F32Div(Len(extended), sample_rate)
             IN  [ samples         |-> SubSeq(extended, excess + 1, Len(extended)),
                   timeline_offset |-> F32Add(timeline_offset, offset) ]
        ELSE [ samples |-> extended, timeline_offset |-> timeline_offset ]

\* RealtimeSession::push_samples: the buffer and the offset afterwards.
push_samples(incoming) ==
    LET extended == samples \o incoming
    IN  IF Len(extended) > max_buffer_samples
        THEN LET excess == Len(extended) - max_buffer_samples
                 offset == F32Div(excess, sample_rate)
             IN  [ samples         |-> SubSeq(extended, excess + 1, Len(extended)),
                   timeline_offset |-> F32Add(timeline_offset, offset) ]
        ELSE [ samples |-> extended, timeline_offset |-> timeline_offset ]

\* An adjustment that leaves the segment on the buffer's own timeline.
adjust_segment_NoShift(segment, offset) == segment

\* The closure of handle_inbound that moves a returned segment onto the
\* session's timeline.
adjust_segment(segment, offset) ==
    [ start |-> F32Add(segment.start, offset),
      end   |-> F32Add(segment.end, offset),
      text  |-> segment.text ]

adjusted_segments(segments, offset) ==
    [i \in 1..Len(segments) |-> adjust_segment(segments[i], offset)]

\* A cutoff that forgets timeline_offset.
replace_from_NoOffset(new_segments, offset) ==
    F32Sub(new_segments[1].start, MERGE_BACKTRACK_SECONDS)

\* merge_segments: the first start the new segments may replace from.
replace_from(new_segments, offset) ==
    F32Max(F32Sub(new_segments[1].start, MERGE_BACKTRACK_SECONDS), offset)

\* A retain_len that never truncates the published list.
retain_len_KeepAll(published, cutoff) == Len(published)

\* merge_segments: number of published segments kept before stitching,
\* the position of the first one with start >= cutoff.
retain_len(published, cutoff) ==
    LET hits == {i \in 1..Len(published) : published[i].start >= cutoff}
    IN  IF hits = {} THEN Len(published)
        ELSE (CHOOSE i \in hits : \A j \in hits : i <= j) - 1

\* merge_segments: does the new segment refine the last published one?
same_utterance(last, segment) ==
    /\ Abs(F32Sub(last.start, segment.start)) < STITCH_TOLERANCE
    /\ Abs(F32Sub(last.end, segment.end)) < STITCH_TOLERANCE

\* A merge that rewrites the last published segment whenever it stitches.
overwrites_Always(last, segment) == TRUE

\* merge_segments: is the last published one rewritten by the new segment?
overwrites(last, segment) ==
    \/ last.text # segment.text
    \/ Abs(F32Sub(last.start, segment.start)) >= F32_EPSILON
    \/ Abs(F32Sub(last.end, segment.end)) >= F32_EPSILON

\* merge_segments: one iteration of the loop over the new segments.
stitch_one(published, segment) ==
    IF published # <<>> /\ same_utterance(published[Len(published)], segment)
    THEN IF overwrites(published[Len(published)], segment)
         THEN [published EXCEPT ![Len(published)] = segment]
         ELSE published
    ELSE Append(published, segment)

RECURSIVE stitch(_, _)
stitch(published, new_segments) ==
    IF new_segments = <<>> THEN published
    ELSE stitch(stitch_one(published, Head(new_segments)), Tail(new_segments))

\* A merge that takes an empty result for an empty transcript.
merge_segments_ClearsOnEmpty(published, new_segments, offset) ==
    IF new_segments = <<>>
    THEN [segments |-> <<>>, changed |-> published # <<>>]
    ELSE LET cutoff   == replace_from(new_segments, offset)
             retained == SubSeq(published, 1, retain_len(published, cutoff))
             merged   == stitch(retained, new_segments)
         IN  [segments |-> merged, changed |-> merged # published]

\* RealtimeSession::merge_segments on the given published list and offset:
\* the published list afterwards and the returned flag.
merge_segments(published, new_segments, offset) ==
    IF new_segments = <<>>
    THEN [segments |-> published, changed |-> FALSE]
    ELSE LET cutoff   == replace_from(new_segments, offset)
             retained == SubSeq(published, 1, retain_len(published, cutoff))
             merged   == stitch(retained, new_segments)
         IN  [segments |-> merged, changed |-> merged # published]

\* RealtimeSession::segments_to_text
RECURSIVE text_pieces(_)
text_pieces(segments) ==
    IF segments = <<>> THEN <<>>
    ELSE LET trimmed == trim(Head(segments).text)
         IN  IF trimmed # <<>>
             THEN <<trimmed>> \o text_pieces(Tail(segments))
             ELSE text_pieces(Tail(segments))

\* segments_to_text that joins the texts without trimming or filtering.
segments_to_text_NoTrim(segments) ==
    join([i \in 1..Len(segments) |-> segments[i].text], <<" ">>)

\* A text taken from the transcriber's result, whose text is "x".
segments_to_text_OfResult(segments) == <<"x">>

segments_to_text(segments) == join(text_pieces(segments), <<" ">>)

\* An emission test that always emits.
should_emit_Always(changed, segments, text) == TRUE

\* An emission test that never emits.
should_emit_Never(changed, segments, text) == FALSE

\* handle_inbound, Chunk: is a Transcript emitted after the merge?
should_emit(changed, segments, text) ==
    \/ changed
    \/ segments # last_sent_segments
    \/ text # last_sent_text

\* A handler without the early return.
returns_early_Never(incoming) == FALSE

\* handle_inbound, Chunk: the early return for an empty sample vector.
returns_early(incoming) == incoming = <<>>

\* A transcribe call made with the buffer as it was before push_samples.
transcribe_call_Stale(pushed) == [samples |-> samples, language |-> language]

\* handle_inbound, Chunk: the arguments of the transcribe call, made after
\* push_samples returned `pushed`.
transcribe_call(pushed) == [samples |-> pushed.samples, language |-> language]

\* RealtimeSession::with_sample_rate (RealtimeSession::new passes 16000, 300).
Init ==
    \E lang \in Languages, rate \in SampleRates, secs \in BufferDurations :
        LET new == session_of(lang, rate, secs)
        IN  /\ language = new.language
            /\ samples = new.samples
            /\ sample_rate = new.sample_rate
            /\ max_buffer_samples = new.max_buffer_samples
            /\ timeline_offset = new.timeline_offset
            /\ published_segments = new.published_segments
            /\ published_text = new.published_text
            /\ last_sent_segments = new.last_sent_segments
            /\ last_sent_text = new.last_sent_text
            /\ inbound = [type |-> "none"]
            /\ response = NoResponse
            /\ outbound = <<>>
            /\ calls = <<>>
            /\ ingested = 0
            /\ last_emitted = <<>>
            /\ failed = FALSE
            /\ returned = "none"
            /\ EngineIdle /\ WavIdle /\ VocabIdle /\ DetokIdle /\ DecodeIdle /\ CliIdle /\ ConvertIdle /\ ConstructIdle

\* The caller of handle_inbound: a user of the library, or main of
\* realtime_cli, which passes the message it parsed and keeps the responses
\* to write them (a failure ends main).
handle_inbound_caller ==
    \/ /\ cli_pc = "none"
       /\ UNCHANGED cli_vars
    \/ /\ cli_pc = "handle"
       /\ inbound' = cli_message
       /\ cli_pc' = IF returned' # "ok" THEN "failed"
                    ELSE IF outbound' = <<>> THEN "read" ELSE "send"
       /\ cli_pending' = IF returned' = "ok" THEN outbound' ELSE <<>>
       /\ UNCHANGED <<stdin, cli_line, cli_message, stdout, cli_before>>

\* handle_inbound(InboundMessage::Chunk { samples: incoming }); resp is what
\* the transcriber returns if it is called.
Chunk(incoming, resp) ==
    /\ ingested + Len(incoming) <= Max(MaxIngested, max_buffer_samples + MaxExcess)
    /\ inbound' = [type |-> "chunk", samples |-> incoming]
    /\ ingested' = ingested + Len(incoming)
    /\ UNCHANGED <<language, sample_rate, max_buffer_samples>>
    /\ UNCHANGED outside_session
    /\ IF returns_early(incoming)
       THEN /\ outbound' = <<>>
            /\ returned' = "ok"
            /\ calls' = <<>>
            /\ response' = NoResponse
            /\ UNCHANGED <<samples, timeline_offset, published_segments,
                           published_text, last_sent_segments, last_sent_text,
                           last_emitted, failed>>
       ELSE \E pushed \in {push_samples(incoming)} :
                /\ samples' = pushed.samples
                /\ timeline_offset' = pushed.timeline_offset
                /\ calls' = <<transcribe_call(pushed)>>
                /\ response' = resp
                /\ failed' = (failed \/ ~resp.ok)
                /\ IF resp.ok
                   THEN \E merged \in {merge_segments(
                                            published_segments,
                                            adjusted_segments(resp.result.segments,
                                                              pushed.timeline_offset),
                                            pushed.timeline_offset)} :
                        \E aggregate \in {segments_to_text(merged.segments)} :
                        LET changed   == merged.changed \/ aggregate # published_text
                            text      == IF aggregate # published_text
                                         THEN aggregate ELSE published_text
                        IN  /\ published_segments' = merged.segments
                            /\ published_text' = text
                            /\ IF should_emit(changed, merged.segments, text)
                               THEN /\ last_sent_segments' = merged.segments
                                    /\ last_sent_text' = text
                                    /\ returned' = "ok"
                                    /\ outbound' = <<OutboundTranscript(text, merged.segments)>>
                                    /\ last_emitted' = <<OutboundTranscript(text, merged.segments)>>
                               ELSE /\ outbound' = <<>>
                                    /\ returned' = "ok"
                                    /\ UNCHANGED <<last_sent_segments, last_sent_text,
                                                   last_emitted>>
                   ELSE /\ outbound' = transcribe_failed(resp.error).messages
                        /\ returned' = transcribe_failed(resp.error).returned
                        /\ UNCHANGED <<published_segments, published_text,
                                       last_sent_segments, last_sent_text, last_emitted>>
    /\ handle_inbound_caller

\* A Reset that forgets to clear the last-sent cache.
Reset_KeepsLastSent ==
    /\ inbound' = [type |-> "reset"]
    /\ samples' = <<>>
    /\ timeline_offset' = 0
    /\ published_segments' = <<>>
    /\ published_text' = <<>>
    /\ outbound' = <<OutboundStatus("session_reset")>>
    /\ returned' = "ok"
    /\ UNCHANGED outside_session
    /\ calls' = <<>>
    /\ response' = NoResponse
    /\ ingested' = 0
    /\ last_emitted' = <<>>
    /\ failed' = FALSE
    /\ UNCHANGED <<language, sample_rate, max_buffer_samples,
                   last_sent_segments, last_sent_text>>
    /\ handle_inbound_caller

\* handle_inbound(InboundMessage::Reset)
Reset ==
    /\ inbound' = [type |-> "reset"]
    /\ samples' = <<>>
    /\ timeline_offset' = 0
    /\ published_segments' = <<>>
    /\ published_text' = <<>>
    /\ last_sent_segments' = <<>>
    /\ last_sent_text' = <<>>
    /\ outbound' = <<OutboundStatus("session_reset")>>
    /\ returned' = "ok"
    /\ UNCHANGED outside_session
    /\ calls' = <<>>
    /\ response' = NoResponse
    /\ ingested' = 0
    /\ last_emitted' = <<>>
    /\ failed' = FALSE
    /\ UNCHANGED <<language, sample_rate, max_buffer_samples>>
    /\ handle_inbound_caller

\* A Flush that answers with a Transcript even when nothing is published.
Flush_AlwaysEmits ==
    /\ inbound' = [type |-> "flush"]
    /\ calls' = <<>>
    /\ response' = NoResponse
    /\ outbound' = <<OutboundTranscript(published_text, published_segments)>>
    /\ last_emitted' = <<OutboundTranscript(published_text, published_segments)>>
    /\ returned' = "ok"
    /\ UNCHANGED <<session, ingested, failed>>
    /\ UNCHANGED outside_session
    /\ handle_inbound_caller

\* handle_inbound(InboundMessage::Flush)
Flush ==
    /\ inbound' = [type |-> "flush"]
    /\ calls' = <<>>
    /\ response' = NoResponse
    /\ IF published_segments = <<>> /\ published_text = <<>>
       THEN /\ outbound' = <<>>
            /\ UNCHANGED last_emitted
       ELSE /\ outbound' = <<OutboundTranscript(published_text, published_segments)>>
            /\ last_emitted' = <<OutboundTranscript(published_text, published_segments)>>
    /\ returned' = "ok"
    /\ UNCHANGED <<session, ingested, failed>>
    /\ UNCHANGED outside_session
    /\ handle_inbound_caller

Next ==
    \/ \E incoming \in ChunkSamples, resp \in Responses : Chunk(incoming, resp)
    \/ Reset
    \/ Flush

Spec == Init /\ [][Next]_vars

\* Sessions built with the rates of BufferRates.
InitBuffer ==
    \E lang \in Languages, rate \in BufferRates, secs \in BufferDurations :
        LET new == session_of(lang, rate, secs)
        IN  /\ language = new.language
            /\ samples = new.samples
            /\ sample_rate = new.sample_rate
            /\ max_buffer_samples = new.max_buffer_samples
            /\ timeline_offset = new.timeline_offset
            /\ published_segments = new.published_segments
            /\ published_text = new.published_text
            /\ last_sent_segments = new.last_sent_segments
            /\ last_sent_text = new.last_sent_text
            /\ inbound = [type |-> "none"]
            /\ response = NoResponse
            /\ outbound = <<>>
            /\ calls = <<>>
            /\ ingested = 0
            /\ last_emitted = <<>>
            /\ failed = FALSE
            /\ returned = "none"
            /\ EngineIdle /\ WavIdle /\ VocabIdle /\ DetokIdle /\ DecodeIdle /\ CliIdle /\ ConvertIdle /\ ConstructIdle

\* What the transcriber returns to those sessions.
BufferResponses ==
    { [ok |-> TRUE, result |-> [text |-> <<"x">>, segments |-> <<SegA>>]],
      [ok |-> FALSE, error |-> "mock failure"] }

NextBuffer ==
    \/ \E incoming \in ChunkSamples, resp \in BufferResponses : Chunk(incoming, resp)
    \/ Reset
    \/ Flush

SpecBuffer == InitBuffer /\ [][NextBuffer]_vars

\* Results of a transcriber that lists its segments in time order from the
\* start of the buffer on: no start is negative and none is below the one
\* before it. Errors are as before.
OrderedResponses ==
    {r \in Responses :
        r.ok => \A i \in 1..Len(r.result.segments) :
                    /\ r.result.segments[i].start >= 0
                    /\ i > 1 => r.result.segments[i - 1].start
                                    <= r.result.segments[i].start}

NextOrdered ==
    \/ \E incoming \in ChunkSamples, resp \in OrderedResponses : Chunk(incoming, resp)
    \/ Reset
    \/ Flush

\* Sessions whose transcriber answers in time order.
SpecOrdered == Init /\ [][NextOrdered]_vars

\* What the transcriber returns to sessions that take several chunks before
\* their buffer is full: results in and out of time order, results that lie
\* around the start of the buffer, and an error.
RepeatSegmentLists ==
    { <<>>, <<SegA>>, <<SegB>>, <<SegF>>, <<SegR>>, <<SegN>>,
      <<SegA, SegB>>, <<SegA, SegF>>, <<SegF, SegA>>, <<SegX, SegY>>,
      DriftingSegments }

RepeatResponses ==
    {[ok |-> TRUE, result |-> [text |-> <<"x">>, segments |-> s]] :
        s \in RepeatSegmentLists}
        \cup {[ok |-> FALSE, error |-> "mock failure"]}

NextRepeat ==
    \/ \E incoming \in ChunkSamples, resp \in RepeatResponses : Chunk(incoming, resp)
    \/ Reset
    \/ Flush

\* Sessions whose buffer holds three samples, so that two chunks can follow
\* an earlier one before anything is trimmed.
SpecRepeat == InitBuffer /\ [][NextRepeat]_vars

(***************************************************************************)
(* Properties of the realtime session                                      *)
(***************************************************************************)

Min(a, b) == IF a <= b THEN a ELSE b

IsChunk(msg) == msg.type = "chunk" /\ msg.samples # <<>>

IsEmptyChunk(msg) == msg.type = "chunk" /\ msg.samples = <<>>

\* First and last positions of a text that hold no whitespace.
Inked(text) == {i \in 1..Len(text) : ~IsWhitespace(text[i])}

\* A text without its leading and trailing whitespace.
Stripped(text) ==
    IF Inked(text) = {} THEN <<>>
    ELSE SubSeq(text,
                CHOOSE i \in Inked(text) : \A j \in Inked(text) : i <= j,
                CHOOSE i \in Inked(text) : \A j \in Inked(text) : i >= j)

\* The stripped texts of the segments that have one, each followed by a space.
RECURSIVE SpacedTexts(_)
SpacedTexts(segments) ==
    IF segments = <<>> THEN <<>>
    ELSE (IF Stripped(segments[1].text) = <<>> THEN <<>>
          ELSE Stripped(segments[1].text) \o <<" ">>)
         \o SpacedTexts(Tail(segments))

\* The single-space join of the trimmed, non-empty texts of the segments.
JoinedText(segments) ==
    LET spaced == SpacedTexts(segments)
    IN  IF spaced = <<>> THEN <<>> ELSE SubSeq(spaced, 1, Len(spaced) - 1)

\* C1: in every reachable state the buffer holds at most max_buffer_samples
\* samples.
C1_BufferBounded == Len(samples) <= max_buffer_samples

\* A single chunk longer than the limit has been ingested and the buffer is full.
C1_Witness ==
    /\ IsChunk(inbound)
    /\ Len(inbound.samples) > max_buffer_samples
    /\ Len(samples) = max_buffer_samples

\* C2: in every reachable state published_text is the single-space join of
\* the trimmed, non-empty texts of published_segments, in order.
C2_TextIsJoin == published_text = JoinedText(published_segments)

\* A padded text and a whitespace-only text are published next to a plain one.
C2_Witness ==
    /\ Len(published_segments) >= 3
    /\ \E i \in 1..Len(published_segments) :
          /\ published_segments[i].text # <<>>
          /\ Stripped(published_segments[i].text) = <<>>
    /\ \E i \in 1..Len(published_segments) :
          /\ Stripped(published_segments[i].text) # <<>>
          /\ Stripped(published_segments[i].text) # published_segments[i].text
    /\ published_text # <<>>

\* The content of the Transcript emitted last since construction or Reset;
\* the empty transcript when there was none.
LastEmission ==
    IF last_emitted = <<>> THEN OutboundTranscript(<<>>, <<>>) ELSE last_emitted[1]

\* C3: a Chunk with a successful transcription emits exactly one Transcript
\* carrying the published text and segments, and sets last_sent_* to them, if
\* the published pair after the merge differs from the last emission; if it
\* does not differ it emits nothing.
C3_EmitIffDiffers ==
    [][ (IsChunk(inbound') /\ response'.ok) =>
          IF OutboundTranscript(published_text', published_segments') # LastEmission
          THEN /\ outbound' = <<OutboundTranscript(published_text', published_segments')>>
               /\ last_sent_segments' = published_segments'
               /\ last_sent_text' = published_text'
          ELSE /\ outbound' = <<>>
               /\ UNCHANGED <<last_sent_segments, last_sent_text>>
      ]_vars

\* A successful chunk has replaced an earlier emission by a new Transcript.
C3_Witness ==
    /\ IsChunk(inbound)
    /\ response.ok
    /\ ingested > Len(inbound.samples)
    /\ outbound = <<OutboundTranscript(published_text, published_segments)>>
    /\ Len(published_segments) = 2
    /\ last_sent_segments = published_segments

\* The starts of a segment list never decrease.
StartsSorted(segments) ==
    \A i \in 1..Len(segments) - 1 : segments[i].start <= segments[i + 1].start

\* Two consecutive non-empty Chunks got the same successful result and the
\* second one trimmed nothing.
SameResultAgain ==
    /\ IsChunk(inbound) /\ response.ok
    /\ IsChunk(inbound') /\ response'.ok
    /\ response'.result = response.result
    /\ Len(samples) + Len(inbound'.samples) <= max_buffer_samples

PublishedFromOffset ==
    \A i \in 1..Len(published_segments) :
        published_segments[i].start >= timeline_offset

NewestSamples(all) ==
    SubSeq(all, Max(Len(all) - max_buffer_samples, 0) + 1, Len(all))

\* Samples a chunk pushes out of the front of the buffer.
Excess(incoming) == Max(Len(samples) + Len(incoming) - max_buffer_samples, 0)

\* The members of a sequence.
Members(seq) == {seq[i] : i \in 1..Len(seq)}

\* C5: a Chunk that overfills the buffer removes exactly the oldest excess
\* samples and adds excess / sample_rate to timeline_offset; a successful
\* result is merged after each of its segments had the new timeline_offset
\* added (as f32) to start and end, so that every published segment is an
\* older published one or a returned one moved onto the session's timeline.
C5_TrimAndShift ==
    [][ IsChunk(inbound') =>
          /\ samples' = NewestSamples(samples \o inbound'.samples)
          /\ timeline_offset' * sample_rate
                = timeline_offset * sample_rate + Excess(inbound'.samples) * SECOND
          /\ response'.ok =>
                /\ published_segments' =
                      merge_segments(
                          published_segments,
                          [i \in 1..Len(response'.result.segments) |->
                              [ start |-> F32(response'.result.segments[i].start + timeline_offset'),
                                end   |-> F32(response'.result.segments[i].end + timeline_offset'),
                                text  |-> response'.result.segments[i].text ]],
                          timeline_offset').segments
                /\ \A p \in Members(published_segments') :
                      \/ p \in Members(published_segments)
                      \/ \E r \in Members(response'.result.segments) :
                            /\ p.start = F32(r.start + timeline_offset')
                            /\ p.end = F32(r.end + timeline_offset')
                            /\ p.text = r.text
      ]_vars

\* The scenario of buffers_trim_and_offset_segments at 2 samples per second:
\* half a second, then a full second of audio into a one-second buffer, with
\* results (0.0, 0.5, "a") and (0.0, 1.0, "b").
C5_Witness ==
    /\ sample_rate = 2
    /\ max_buffer_samples = 2
    /\ inbound = [type |-> "chunk", samples |-> <<2, 3>>]
    /\ samples = <<2, 3>>
    /\ ingested = 3
    /\ timeline_offset = SECOND \div 2
    /\ response.ok
    /\ response.result.segments = <<SegC>>
    /\ published_segments =
          << Segment(0, SECOND \div 2, <<"a">>),
             Segment(SECOND \div 2, SECOND + SECOND \div 2, <<"b">>) >>
    /\ published_text = <<"a", " ", "b">>
    /\ outbound = <<OutboundTranscript(published_text, published_segments)>>

\* The fields of the session.
SessionFields ==
    [ language            |-> language,
      samples             |-> samples,
      sample_rate         |-> sample_rate,
      max_buffer_samples  |-> max_buffer_samples,
      timeline_offset     |-> timeline_offset,
      published_segments  |-> published_segments,
      published_text      |-> published_text,
      last_sent_segments  |-> last_sent_segments,
      last_sent_text      |-> last_sent_text ]

\* C6: Reset emits exactly one Status "session_reset", calls no transcriber,
\* keeps language, sample rate and buffer limit, and leaves the session as a
\* freshly constructed one with that configuration: empty buffer, offset 0,
\* nothing published, nothing cached.
C6_ResetIsFresh ==
    [][ inbound'.type = "reset" =>
          /\ outbound' = <<[type |-> "status", message |-> "session_reset"]>>
          /\ calls' = <<>>
          /\ UNCHANGED <<language, sample_rate, max_buffer_samples>>
          /\ SessionFields' =
                session_of(language, sample_rate,
                           max_buffer_samples \div sample_rate)
          /\ samples' = <<>> /\ timeline_offset' = 0
          /\ published_segments' = <<>> /\ published_text' = <<>>
          /\ last_sent_segments' = <<>> /\ last_sent_text' = <<>>
      ]_vars

\* A Reset has been handled.
C6_Witness ==
    /\ inbound.type = "reset"
    /\ outbound = <<OutboundStatus("session_reset")>>
    /\ samples = <<>>

\* C7: Flush changes no field of the session and calls no transcriber; if
\* anything is published it emits exactly one Transcript, equal to the one
\* emitted last since the last Reset, otherwise it emits nothing.
C7_FlushReplays ==
    [][ inbound'.type = "flush" =>
          /\ UNCHANGED session
          /\ calls' = <<>>
          /\ IF published_segments # <<>> \/ published_text # <<>>
             THEN /\ last_emitted # <<>>
                  /\ outbound' = last_emitted
                  /\ outbound'[1] = OutboundTranscript(published_text, published_segments)
             ELSE outbound' = <<>>
      ]_vars

\* A Flush has replayed a transcript while samples are buffered.
C7_Witness ==
    /\ inbound.type = "flush"
    /\ Len(outbound) = 1
    /\ outbound[1].type = "transcript"
    /\ outbound = last_emitted
    /\ samples # <<>>

\* C8: a Chunk whose transcription fails returns exactly one Error whose
\* message is "transcription failed: " followed by the error's text; the
\* next Chunk whose transcription succeeds is handled as any other: it
\* publishes the merge and emits a Transcript iff the published pair differs
\* from the cached one.
C8_ErrorIsWrapped ==
    [][ /\ (IsChunk(inbound') /\ ~response'.ok) =>
             /\ response'.error \in ErrorTexts
             /\ outbound' = <<[type |-> "error",
                               message |-> "transcription failed: " \o response'.error]>>
        /\ (IsChunk(inbound) /\ ~response.ok /\ IsChunk(inbound') /\ response'.ok) =>
             /\ published_text' = JoinedText(published_segments')
             /\ outbound' =
                  IF <<published_segments', published_text'>>
                        # <<last_sent_segments, last_sent_text>>
                  THEN <<OutboundTranscript(published_text', published_segments')>>
                  ELSE <<>>
      ]_vars

\* After a Chunk failed with "mock failure", a later Chunk of the same
\* session succeeded and emitted a Transcript.
C8_Witness ==
    /\ failed
    /\ IsChunk(inbound)
    /\ response.ok
    /\ outbound = <<OutboundTranscript(published_text, published_segments)>>
    /\ published_text # <<>>

\* C9: a Chunk with no samples emits nothing, calls no transcriber and
\* changes no field of the session.
C9_EmptyChunkIsNoOp ==
    [][ IsEmptyChunk(inbound') =>
          /\ outbound' = <<>>
          /\ calls' = <<>>
          /\ UNCHANGED session
      ]_vars

\* An empty Chunk has been handled by a session that holds samples and a
\* published transcript.
C9_Witness ==
    /\ IsEmptyChunk(inbound)
    /\ samples # <<>>
    /\ published_segments # <<>>
    /\ outbound = <<>>

\* C10: every non-empty Chunk calls the transcriber exactly once, with the
\* buffer as it is after the append and trim (min(ingested, limit) samples)
\* and the configured language; Reset, Flush and empty Chunks do not call it.
C10_OneCallPerChunk ==
    [][ IF IsChunk(inbound')
        THEN /\ Len(calls') = 1
             /\ calls'[1].samples = samples'
             /\ calls'[1].samples = NewestSamples(samples \o inbound'.samples)
             /\ Len(calls'[1].samples) = Min(ingested', max_buffer_samples)
             /\ calls'[1].language = language
        ELSE calls' = <<>>
      ]_vars

\* A chunk that overfilled the buffer was transcribed with the trimmed
\* buffer and the language "en".
C10_Witness ==
    /\ IsChunk(inbound)
    /\ ingested > max_buffer_samples
    /\ calls = <<[samples |-> samples, language |-> <<"en">>]>>
    /\ Len(samples) = max_buffer_samples

\* C11: handle_inbound returns Ok for every inbound message, in every state,
\* and the vector it returns holds at most one outbound message; a transcriber
\* error comes back as one Error message inside Ok, and Reset and Flush
\* return Ok.
C11_NeverFails ==
    inbound.type # "none" => (returned = "ok" /\ Len(outbound) <= 1)

\* A Chunk whose transcription failed returned Ok with one Error message.
C11_Witness ==
    /\ IsChunk(inbound)
    /\ ~response.ok
    /\ returned = "ok"
    /\ Len(outbound) = 1
    /\ outbound[1].type = "error"

\* Number of occurrences of a value in a sequence.
Count(seq, x) == Cardinality({i \in 1..Len(seq) : seq[i] = x})

StartsIncrease(segments) ==
    \A i \in 1..Len(segments) - 1 : segments[i].start < segments[i + 1].start

\* C12, as claimed: after a successful Chunk, every segment of the shifted
\* result that was already published occurs exactly once in
\* published_segments.
C12_Claimed ==
    [][ (IsChunk(inbound') /\ response'.ok) =>
          LET shifted == adjusted_segments(response'.result.segments, timeline_offset')
          IN  \A i \in 1..Len(shifted) :
                  shifted[i] \in Members(published_segments)
                      => Count(published_segments', shifted[i]) = 1 ]_vars

\* C12, amended: if the start times of the shifted result increase strictly
\* and none lies before timeline_offset, every segment of the shifted result
\* that was already published occurs at most once in published_segments
\* after the merge.
C12_NoDuplicate ==
    [][ (IsChunk(inbound') /\ response'.ok) =>
          LET shifted == adjusted_segments(response'.result.segments, timeline_offset')
          IN  (/\ StartsIncrease(shifted)
               /\ \A i \in 1..Len(shifted) : shifted[i].start >= timeline_offset')
              => \A i \in 1..Len(shifted) :
                     shifted[i] \in Members(published_segments)
                         => Count(published_segments', shifted[i]) <= 1 ]_vars

\* The second of two one-sample chunks that both got <<SegA, SegF>>: both
\* segments were published before the merge and each is published once after.
C12_Witness ==
    /\ sample_rate = 2
    /\ ingested = 2
    /\ inbound = [type |-> "chunk", samples |-> <<1>>]
    /\ response.ok
    /\ response.result.segments = <<SegA, SegF>>
    /\ published_segments = <<SegA, SegF>>
    /\ outbound = <<>>

\* A successful non-empty Chunk whose result holds segments has just been
\* handled.
MergedResult ==
    IsChunk(inbound') /\ response'.ok /\ response'.result.segments # <<>>

\* The shifted result of that Chunk.
Shifted == adjusted_segments(response'.result.segments, timeline_offset')

\* The cutoff of that merge: max(first_new.start - 1.5, timeline_offset).
Cutoff == Max(F32(Shifted[1].start - 3 * (SECOND \div 2)), timeline_offset')

\* Length of the longest prefix of the list whose segments all start before
\* the cutoff.
PrefixBefore(segments, cutoff) ==
    CHOOSE n \in 0..Len(segments) :
        /\ \A i \in 1..n : segments[i].start < cutoff
        /\ n < Len(segments) => segments[n + 1].start >= cutoff

\* The merge kept the first `kept` published segments, the last of them
\* open to stitching, and added at most the new segments to them.
CutTo(kept, shifted) ==
    /\ \A i \in 1..(kept - 1) : published_segments'[i] = published_segments[i]
    /\ Len(published_segments') >= Max(kept, 1)
    /\ Len(published_segments') <= kept + Len(shifted)
    /\ kept > 0 =>
           \/ published_segments'[kept] = published_segments[kept]
           \/ published_segments'[kept] \in Members(shifted)

\* C23, as claimed: a merge cuts the published list to its longest prefix of
\* segments with start < cutoff = max(first_new.start - 1.5,
\* timeline_offset); no published segment with start < timeline_offset is
\* cut off; with timeline_offset = 0 and first_new.start <= 1.5 every
\* published segment is cut off.
C23_Claimed ==
    [][ MergedResult =>
          \A shifted \in {Shifted}, cutoff \in {Cutoff} :
              \A kept \in {PrefixBefore(published_segments, cutoff)} :
                  /\ CutTo(kept, shifted)
                  /\ \A i \in 1..Len(published_segments) :
                         published_segments[i].start < timeline_offset' => i <= kept
                  /\ (timeline_offset' = 0 /\ shifted[1].start <= 3 * (SECOND \div 2))
                         => kept = 0 ]_vars

\* C23, amended: a merge cuts the published list to its longest prefix of
\* segments with start < cutoff; a published segment with start <
\* timeline_offset is not cut off unless a segment before it in the list has
\* start >= cutoff; with timeline_offset = 0 and first_new.start <= 1.5
\* every published segment from the first one with start >= 0 on is cut off.
C23_PrefixBeforeCutoff ==
    [][ MergedResult =>
          \A shifted \in {Shifted}, cutoff \in {Cutoff} :
              \A kept \in {PrefixBefore(published_segments, cutoff)} :
                  /\ CutTo(kept, shifted)
                  /\ \A i \in 1..Len(published_segments) :
                         ( /\ published_segments[i].start < timeline_offset'
                           /\ \A j \in 1..(i - 1) :
                                  published_segments[j].start < cutoff )
                             => i <= kept
                  /\ (timeline_offset' = 0 /\ shifted[1].start <= 3 * (SECOND \div 2))
                         => \A i \in 1..Len(published_segments) :
                                (i > kept) =
                                    (\E j \in 1..i : published_segments[j].start >= 0)
        ]_vars

\* With timeline_offset 0 and a segment starting before 0 published, the
\* merge of a result starting at 0 kept that segment and added the result.
C23_Witness ==
    /\ inbound = [type |-> "chunk", samples |-> <<1>>]
    /\ response.ok
    /\ response.result.segments = <<SegA>>
    /\ timeline_offset = 0
    /\ ingested = 2
    /\ published_segments = <<SegN, SegA>>
    /\ Len(outbound) = 1

\* Are the two segments within 0.25 s of each other at both ends?
Near(tail, new) ==
    /\ Abs(F32(tail.start - new.start)) < SECOND \div 4
    /\ Abs(F32(tail.end - new.end)) < SECOND \div 4

\* The rule as claimed: the new segments, in order, each put in place of the
\* current tail if it is near it and appended otherwise.
RECURSIVE Overwriting(_, _)
Overwriting(list, new) ==
    IF new = <<>> THEN list
    ELSE IF list # <<>> /\ Near(list[Len(list)], new[1])
    THEN Overwriting([list EXCEPT ![Len(list)] = new[1]], Tail(new))
    ELSE Overwriting(Append(list, new[1]), Tail(new))

\* Does the new segment say what the tail says: the same text, and start
\* and end less than f32::EPSILON away?
SameWithinEpsilon(tail, new) ==
    /\ tail.text = new.text
    /\ Abs(F32(tail.start - new.start)) < F32_EPSILON
    /\ Abs(F32(tail.end - new.end)) < F32_EPSILON

\* The rule with the tail left as it is when the new segment says the same.
RECURSIVE OverwritingChanges(_, _)
OverwritingChanges(list, new) ==
    IF new = <<>> THEN list
    ELSE IF list # <<>> /\ Near(list[Len(list)], new[1])
    THEN IF SameWithinEpsilon(list[Len(list)], new[1])
         THEN OverwritingChanges(list, Tail(new))
         ELSE OverwritingChanges([list EXCEPT ![Len(list)] = new[1]], Tail(new))
    ELSE OverwritingChanges(Append(list, new[1]), Tail(new))

\* C24, as claimed: after the cut, each new segment in order is compared
\* with the current tail only; within 0.25 s at both ends it is written over
\* the tail, otherwise it is appended; the list is no longer than the kept
\* prefix and the new segments together.
C24_Claimed ==
    [][ MergedResult =>
          \A shifted \in {Shifted}, cutoff \in {Cutoff} :
              \A kept \in {PrefixBefore(published_segments, cutoff)} :
                  /\ published_segments' =
                         Overwriting(SubSeq(published_segments, 1, kept), shifted)
                  /\ Len(published_segments') <= kept + Len(shifted) ]_vars

\* C24, amended: a new segment within 0.25 s of the tail at both ends is
\* written over the tail unless it has the tail's text and start and end
\* less than f32::EPSILON from the tail's, in which case the tail stays as it
\* is; otherwise it is appended; the list is no longer than the kept prefix
\* and the new segments together.
C24_StitchesOntoTail ==
    [][ MergedResult =>
          \A shifted \in {Shifted}, cutoff \in {Cutoff} :
              \A kept \in {PrefixBefore(published_segments, cutoff)} :
                  /\ published_segments' =
                         OverwritingChanges(SubSeq(published_segments, 1, kept), shifted)
                  /\ Len(published_segments') <= kept + Len(shifted) ]_vars

\* A result held SegA and then SegA moved by one tick: SegA was appended
\* and, the second saying the same, kept its start.
C24_Witness ==
    /\ inbound = [type |-> "chunk", samples |-> <<1>>]
    /\ ingested = 1
    /\ response.ok
    /\ response.result.segments = <<SegA, SegA1>>
    /\ published_segments = <<SegA>>
    /\ Len(outbound) = 1

\* Samples ingested since construction or the last Reset that the buffer no
\* longer holds room for: max(0, N - max_buffer_samples).
Trimmed == Max(0, ingested - max_buffer_samples)

\* The last n elements of a sequence.
LastOf(seq, n) == SubSeq(seq, Len(seq) - n + 1, Len(seq))

IsPowerOfTwo(n) == \E k \in 0..30 : n = 2^k

\* The buffer holds min(N, max_buffer_samples) samples.
BufferLength == Len(samples) = Min(ingested, max_buffer_samples)

\* A handled chunk leaves the last min(N, max_buffer_samples) samples of the
\* old buffer followed by the chunk; the buffer being the last samples
\* ingested before, it is the last samples ingested after.
BufferKeepsLast ==
    inbound'.type = "chunk" =>
        samples' = LastOf(samples \o inbound'.samples,
                          Min(ingested', max_buffer_samples))

\* Only a Reset lowers timeline_offset.
OffsetGrows == inbound'.type # "reset" => timeline_offset' >= timeline_offset

\* C25, as claimed: the buffer holds exactly the last min(N,
\* max_buffer_samples) ingested samples in arrival order, timeline_offset *
\* sample_rate equals max(0, N - max_buffer_samples), and timeline_offset
\* never decreases except by Reset.
C25_Claimed ==
    /\ [](BufferLength /\ timeline_offset * sample_rate = Trimmed * SECOND)
    /\ [][BufferKeepsLast /\ OffsetGrows]_vars

\* C25, amended: the buffer holds exactly the last min(N, max_buffer_samples)
\* ingested samples in arrival order; each chunk adds to timeline_offset, in
\* f32, the f32 quotient of the number of samples it trims by sample_rate, so
\* that timeline_offset * sample_rate equals max(0, N - max_buffer_samples)
\* when sample_rate is a power of two; timeline_offset never decreases except
\* by Reset.
C25_BufferAccounting ==
    /\ [](/\ BufferLength
          /\ IsPowerOfTwo(sample_rate) =>
                 timeline_offset * sample_rate = Trimmed * SECOND)
    /\ [][ /\ BufferKeepsLast
           /\ OffsetGrows
           /\ inbound'.type = "chunk" =>
                  timeline_offset' =
                      F32(timeline_offset + F32Div(Trimmed' - Trimmed, sample_rate)) ]_vars

\* A session of 3 samples per second has ingested 4 samples: it holds the
\* last 3 and its offset is the f32 nearest to 1/3.
C25_Witness ==
    /\ sample_rate = 3
    /\ ingested = 4
    /\ samples = <<5, 6, 1>>
    /\ 3 * timeline_offset = SECOND + 1

\* The last-sent cache holds what is published.
CacheCoherent ==
    /\ last_sent_segments = published_segments
    /\ last_sent_text = published_text

\* C33: between two calls of handle_inbound last_sent_segments equals
\* published_segments and last_sent_text equals published_text; so whenever
\* a chunk changes what is published, what is published also differs from
\* the cache, and the changed flag decides no emission on its own.
C33_CacheCoherent ==
    /\ []CacheCoherent
    /\ [][ (published_segments' # published_segments
               \/ published_text' # published_text)
             => (published_segments' # last_sent_segments
                    \/ published_text' # last_sent_text) ]_vars

\* A chunk whose result repeated what was published: nothing was emitted and
\* the cache holds the published segment.
C33_Witness ==
    /\ IsChunk(inbound)
    /\ response.ok
    /\ response.result.segments = <<SegA>>
    /\ outbound = <<>>
    /\ published_segments = <<SegA>>
    /\ last_sent_segments = <<SegA>>
    /\ last_sent_text = <<"a">>

\* C34: with a transcriber whose every result lists its segments with
\* non-negative, non-decreasing starts, published_segments is in order of
\* non-decreasing start after any sequence of messages.
C34_PublishedOrdered ==
    \A i \in 1..Len(published_segments) - 1 :
        published_segments[i].start <= published_segments[i + 1].start

\* After a trim that raised the offset, two results in time order have left
\* three segments published, the first from before the trim.
C34_Witness ==
    /\ timeline_offset > 0
    /\ Len(published_segments) = 3
    /\ published_segments[1].start < timeline_offset
    /\ published_segments[2].start < published_segments[3].start

\* C35: a Chunk whose transcription fails leaves published_segments,
\* published_text, last_sent_segments and last_sent_text unchanged, while
\* the buffer keeps the chunk's samples and the trim made for it, and
\* timeline_offset keeps the increase that goes with the trim.
C35_ErrorKeepsBuffer ==
    [][ (IsChunk(inbound') /\ ~response'.ok) =>
          /\ UNCHANGED <<published_segments, published_text,
                         last_sent_segments, last_sent_text>>
          /\ samples' = NewestSamples(samples \o inbound'.samples)
          /\ timeline_offset' =
                 F32(timeline_offset
                         + F32Div(Excess(inbound'.samples), sample_rate)) ]_vars

\* With SegA published, a second chunk failed: its sample pushed the first
\* out of a buffer of one sample and the offset is 1 s.
C35_Witness ==
    /\ sample_rate = 1
    /\ ingested = 2
    /\ inbound = [type |-> "chunk", samples |-> <<1>>]
    /\ ~response.ok
    /\ Len(outbound) = 1
    /\ outbound[1].type = "error"
    /\ samples = <<1>>
    /\ timeline_offset = SECOND
    /\ published_segments = <<SegA>>
    /\ last_sent_segments = <<SegA>>

\* C36: the text of every emitted Transcript is the join of the texts of
\* the published segments it carries, whatever the text of the transcriber's
\* result; a successful result with a text and no segments, on a session
\* with nothing published, emits no message.
C36_TextFromSegments ==
    [][ /\ \A i \in 1..Len(outbound') :
               outbound'[i].type = "transcript" =>
                   /\ outbound'[i].segments = published_segments'
                   /\ outbound'[i].text = JoinedText(outbound'[i].segments)
        /\ (/\ IsChunk(inbound')
            /\ response'.ok
            /\ response'.result.text # <<>>
            /\ response'.result.segments = <<>>
            /\ published_segments = <<>>) => outbound' = <<>> ]_vars

\* The first chunk of a session got a result with the text "x" and no
\* segments: nothing is published and nothing was emitted.
C36_Witness ==
    /\ IsChunk(inbound)
    /\ ingested = Len(inbound.samples)
    /\ response.ok
    /\ response.result.text = <<"x">>
    /\ response.result.segments = <<>>
    /\ published_segments = <<>>
    /\ published_text = <<>>
    /\ outbound = <<>>

\* C37: a Chunk whose successful result has no segments leaves
\* published_segments, published_text, last_sent_segments and
\* last_sent_text unchanged and emits no message, also when the chunk
\* trimmed the buffer and raised timeline_offset.
C37_EmptyResultKeeps ==
    [][ (/\ IsChunk(inbound')
         /\ response'.ok
         /\ response'.result.segments = <<>>) =>
            /\ UNCHANGED <<published_segments, published_text,
                           last_sent_segments, last_sent_text>>
            /\ outbound' = <<>> ]_vars

\* With SegA published, a second chunk pushed the first sample out of the
\* buffer, raised the offset to 1 s and got a result without segments: SegA
\* is still published and nothing was emitted.
C37_Witness ==
    /\ sample_rate = 1
    /\ ingested = 2
    /\ inbound = [type |-> "chunk", samples |-> <<1>>]
    /\ response.ok
    /\ response.result.segments = <<>>
    /\ timeline_offset = SECOND
    /\ published_segments = <<SegA>>
    /\ published_text = <<"a">>
    /\ outbound = <<>>

(***************************************************************************)
(* Parakeet decode loop (src/src/parakeet_engine.rs)                       *)
(*                                                                         *)
(* Token ids and frame indices count from 0 as in the source; the entry of *)
(* id i in a table or a logits vector is element i + 1 of the sequence.    *)
(* A frame time is an f32 number of seconds in ticks of 2^-30 s.           *)
(***************************************************************************)

\* Encoder frames of the longest input.
MaxFrames == 2

\* Tokens the joint-decoder lets one input emit before it answers blank only.
MaxTokens == 11

\* Tokens of one input the joint-decoder chooses freely; the later ones
\* repeat the token before them.
MaxVaried == 3

SUBSAMPLING_FACTOR == 8

\* 0.01f32 = 10737418 * 2^-30
WINDOW_SIZE == 10737418

\* ParakeetModel::new: max_tokens_per_step: 10
MAX_TOKENS_PER_STEP == 10

\* An f32 NaN among the logits; the other logits are small integers.
NaN == -1000000

\* Vocabulary tables as load_vocab builds them, with the id of "<blk>".
Vocabularies ==
    { [ vocab     |-> << <<"<", "b", "l", "k", ">">>, <<" ", "a">>, <<"b">> >>,
        blank_idx |-> 0 ],
      [ vocab     |-> << <<" ", "a">>, <<>>, <<"<", "b", "l", "k", ">">> >>,
        blank_idx |-> 2 ] }

\* Logits vectors the joint-decoder can return: of the vocabulary's length,
\* longer (a TDT model's duration logits follow), shorter and empty; with a
\* single maximum, with equal maxima and with a NaN.
JointOutputs ==
    { <<1, 0, 0>>, <<0, 1, 0>>, <<0, 0, 1>>, <<1, 1, 0>>, <<0, NaN, -1>>,
      <<0, 1, 0, 5, 5>>, <<0, 1>>, <<>> }

\* Decoder states the joint-decoder can return; create_decoder_state gives 0.
DecoderStates == {1, 2}

\* f32::partial_cmp(a, b).unwrap_or(Ordering::Equal)
compare(a, b) ==
    IF a = NaN \/ b = NaN THEN "Equal"
    ELSE IF a < b THEN "Less"
    ELSE IF a > b THEN "Greater"
    ELSE "Equal"

\* Iterator::max_by over the enumerated logits: the element kept so far is
\* replaced by the next one unless it compares Greater. The index returned
\* counts from 0.
RECURSIVE max_by(_, _, _)
max_by(logits, best, next) ==
    IF next > Len(logits) THEN best - 1
    ELSE max_by(logits,
                IF compare(logits[best], logits[next]) = "Greater" THEN best ELSE next,
                next + 1)

\* A choice among all the logits, duration logits included.
vocab_logits_All(probs, vocab_size) == probs

\* decode_sequence: the logits the token is chosen from.
vocab_logits(probs, vocab_size) ==
    IF Len(probs) > vocab_size THEN SubSeq(probs, 1, vocab_size) ELSE probs

\* decode_sequence: the argmax token, blank_idx for an empty vector.
argmax_token(logits, blank) ==
    IF logits = <<>> THEN blank ELSE max_by(logits, 1, 2)

\* A target that is the blank on every call.
target_token_Blank(prev_tokens, blank) == blank

\* decode_step: the target token given to the joint-decoder.
target_token(prev_tokens, blank) ==
    IF prev_tokens = <<>> THEN blank ELSE prev_tokens[Len(prev_tokens)]

\* Characters of the regex class \w among those the model uses.
IsWord(c) == c \in {"a", "b", "k", "l"}

\* Is there a word character at this position of the text? None outside it.
WordAt(text, pos) == pos \in 1..Len(text) /\ IsWord(text[pos])

\* The regex assertion \b between position pos and position pos + 1.
word_boundary(text, pos) == WordAt(text, pos) # WordAt(text, pos + 1)

\* decode_space_pattern, \A\s|\s\B|(\s)\b, at one position of the text: the
\* alternative that matches the character there, the first in the pattern's
\* order. Every alternative consumes exactly one whitespace character, so the
\* matches replace_all finds are the whitespace characters, one by one.
space_match(text, pos) ==
    IF ~IsWhitespace(text[pos]) THEN "none"
    ELSE IF pos = 1 THEN "start"
    ELSE IF ~word_boundary(text, pos) THEN "no_boundary"
    ELSE "group_1"

\* A closure with the two replacements exchanged.
space_replacement_Swapped(text, pos) ==
    LET matched == space_match(text, pos)
    IN  IF matched = "none" THEN <<text[pos]>>
        ELSE IF matched = "group_1" THEN <<>>
        ELSE <<" ">>

\* decode_tokens: the closure that replaces a match, " " if group 1 took
\* part in it and "" otherwise; an unmatched character is copied.
space_replacement(text, pos) ==
    LET matched == space_match(text, pos)
    IN  IF matched = "none" THEN <<text[pos]>>
        ELSE IF matched = "group_1" THEN <<" ">>
        ELSE <<>>

\* Regex::replace_all with decode_space_pattern and that closure.
RECURSIVE replace_from_pos(_, _)
replace_from_pos(text, pos) ==
    IF pos > Len(text) THEN <<>>
    ELSE space_replacement(text, pos) \o replace_from_pos(text, pos + 1)

replace_all(text) == replace_from_pos(text, 1)

\* A lookup that also leaves out the ids of empty table slots.
RECURSIVE token_strings_SkipEmpty(_, _)
token_strings_SkipEmpty(ids, table) ==
    IF ids = <<>> THEN <<>>
    ELSE LET idx == Head(ids)
         IN  IF idx >= 0 /\ idx < Len(table) /\ table[idx + 1] # <<>>
             THEN <<table[idx + 1]>> \o token_strings_SkipEmpty(Tail(ids), table)
             ELSE token_strings_SkipEmpty(Tail(ids), table)

\* decode_tokens: the strings of the ids that index the table.
RECURSIVE token_strings(_, _)
token_strings(ids, table) ==
    IF ids = <<>> THEN <<>>
    ELSE LET idx == Head(ids)
         IN  IF idx >= 0 /\ idx < Len(table)
             THEN <<table[idx + 1]>> \o token_strings(Tail(ids), table)
             ELSE token_strings(Tail(ids), table)

\* decode_tokens: WINDOW_SIZE * SUBSAMPLING_FACTOR as f32 * t as f32
frame_seconds(frame) == F32(F32(WINDOW_SIZE * SUBSAMPLING_FACTOR) * frame)

\* ParakeetModel::decode_tokens
decode_tokens(ids, frames, table) ==
    LET strings == token_strings(ids, table)
    IN  [ called     |-> TRUE,
          text       |-> replace_all(join(strings, <<>>)),
          timestamps |-> [i \in 1..Len(frames) |-> frame_seconds(frames[i])],
          tokens     |-> strings ]

\* ParakeetModel with its vocabulary loaded, entering decode_sequence for an
\* encoder output of encodings_len frames.
DecodeInit ==
    /\ \E v \in Vocabularies : vocab = v.vocab /\ blank_idx = v.blank_idx
    /\ encodings_len \in 0..MaxFrames
    /\ prev_state = 0
    /\ tokens = <<>>
    /\ timestamps = <<>>
    /\ t = 0
    /\ emitted_tokens = 0
    /\ decode_pc = "loop"
    /\ decode_step = [called |-> FALSE]
    /\ decode_calls = 0
    /\ decode_result = [called |-> FALSE]

\* What the decode loop leaves alone.
outside_decode == <<session_vars, engine_vars, wav_vars, vocab_vars, detok_vars, convert_vars, construct_vars, cli_vars>>

\* A loop that pushes the blank as well.
emits_Blank(token, blank) == TRUE

\* decode_sequence: is the token pushed?
emits(token, blank) == token # blank

\* A loop that moves to the next frame on a blank only.
advances_OnBlank(token, blank, emitted) == token = blank

\* A loop that lets a frame emit one token more.
advances_Late(token, blank, emitted) ==
    token = blank \/ emitted = MAX_TOKENS_PER_STEP + 1

\* decode_sequence: does the loop move to the next frame?
advances(token, blank, emitted) ==
    token = blank \/ emitted = MAX_TOKENS_PER_STEP

\* One iteration of decode_sequence's loop in which decode_step returns the
\* logits probs and the decoder state new_state.
DecodeStep(probs, new_state) ==
    /\ decode_pc = "loop"
    /\ t < encodings_len
    /\ LET target  == target_token(tokens, blank_idx)
           logits  == vocab_logits(probs, Len(vocab))
           token   == argmax_token(logits, blank_idx)
           emitted == IF emits(token, blank_idx)
                      THEN emitted_tokens + 1 ELSE emitted_tokens
       IN  /\ emits(token, blank_idx) => Len(tokens) < MaxTokens
           /\ (emits(token, blank_idx) /\ Len(tokens) >= MaxVaried)
                  => token = tokens[Len(tokens)]
           /\ decode_step' = [ called |-> TRUE, target |-> target, probs |-> probs,
                               new_state |-> new_state, token |-> token ]
           /\ decode_calls' = decode_calls + 1
           /\ IF emits(token, blank_idx)
              THEN /\ prev_state' = new_state
                   /\ tokens' = Append(tokens, token)
                   /\ timestamps' = Append(timestamps, t)
              ELSE UNCHANGED <<prev_state, tokens, timestamps>>
           /\ IF advances(token, blank_idx, emitted)
              THEN t' = t + 1 /\ emitted_tokens' = 0
              ELSE t' = t /\ emitted_tokens' = emitted
    /\ UNCHANGED <<vocab, blank_idx, encodings_len, decode_pc, decode_result>>
    /\ UNCHANGED outside_decode

\* decode_step returns an error, which decode_sequence and recognize_batch
\* pass on.
DecodeStepFails ==
    /\ decode_pc = "loop"
    /\ t < encodings_len
    /\ decode_pc' = "failed"
    /\ decode_step' = [ called |-> TRUE, target |-> target_token(tokens, blank_idx),
                        probs |-> <<>>, new_state |-> prev_state, token |-> blank_idx ]
    /\ decode_calls' = decode_calls + 1
    /\ UNCHANGED <<vocab, blank_idx, encodings_len, prev_state, tokens, timestamps,
                   t, emitted_tokens, decode_result>>
    /\ UNCHANGED outside_decode

\* The loop ends, decode_sequence returns (tokens, timestamps) and
\* recognize_batch gives them to decode_tokens.
DecodeTokens ==
    /\ decode_pc = "loop"
    /\ ~(t < encodings_len)
    /\ decode_pc' = "done"
    /\ decode_result' = decode_tokens(tokens, timestamps, vocab)
    /\ UNCHANGED <<vocab, blank_idx, encodings_len, prev_state, tokens, timestamps,
                   t, emitted_tokens, decode_step, decode_calls>>
    /\ UNCHANGED outside_decode

\* A session just built by RealtimeSession::new that handles no message.
SessionIdle ==
    /\ \E new \in {session_of(<<>>, 0, 1)} :
           /\ language = new.language
           /\ samples = new.samples
           /\ sample_rate = new.sample_rate
           /\ max_buffer_samples = new.max_buffer_samples
           /\ timeline_offset = new.timeline_offset
           /\ published_segments = new.published_segments
           /\ published_text = new.published_text
           /\ last_sent_segments = new.last_sent_segments
           /\ last_sent_text = new.last_sent_text
    /\ inbound = [type |-> "none"]
    /\ response = NoResponse
    /\ outbound = <<>>
    /\ calls = <<>>
    /\ ingested = 0
    /\ last_emitted = <<>>
    /\ failed = FALSE
    /\ returned = "none"

InitDecode ==
    /\ DecodeInit
    /\ SessionIdle /\ EngineIdle /\ WavIdle /\ VocabIdle /\ DetokIdle /\ ConvertIdle /\ ConstructIdle
    /\ CliIdle

NextDecode ==
    \/ \E probs \in JointOutputs, new_state \in DecoderStates :
           DecodeStep(probs, new_state)
    \/ DecodeStepFails
    \/ DecodeTokens

SpecDecode == InitDecode /\ [][NextDecode]_vars

(***************************************************************************)
(* Properties of the decode loop                                           *)
(***************************************************************************)

NonDecreasing(seq) == \A i \in 1..Len(seq) - 1 : seq[i] <= seq[i + 1]

\* C13: whatever the joint-decoder returned on the way, the result of
\* decode_sequence followed by decode_tokens has as many tokens as
\* timestamps, one of each per emitted id, and its timestamps never decrease.
C13_TokensMatchTimestamps ==
    decode_pc = "done" =>
        /\ Len(decode_result.tokens) = Len(decode_result.timestamps)
        /\ Len(decode_result.tokens) = Len(tokens)
        /\ NonDecreasing(decode_result.timestamps)

\* A finished decode that emitted the most a frame allows on frame 0 and
\* went on emitting on frame 1, the id of an empty table slot included.
C13_Witness ==
    /\ decode_pc = "done"
    /\ Len(decode_result.tokens) = MAX_TOKENS_PER_STEP + 1
    /\ decode_result.timestamps[MAX_TOKENS_PER_STEP] = 0
    /\ decode_result.timestamps[MAX_TOKENS_PER_STEP + 1] = frame_seconds(1)
    /\ <<>> \in {decode_result.tokens[i] : i \in 1..Len(decode_result.tokens)}

\* A step of the loop in which decode_step returned logits: the loop goes on.
LoopStep == decode_pc = "loop" /\ decode_pc' = "loop"

\* How often a frame occurs among the timestamps.
Occurrences(frame) == Cardinality({i \in 1..Len(timestamps) : timestamps[i] = frame})

\* C26: the frame index starts at 0 and never decreases; a step whose chosen
\* token is blank, or on which the count of tokens emitted on the frame
\* reaches 10, adds exactly 1 to it and resets the count to 0; every other
\* step leaves the frame unchanged, whatever the logits after the
\* vocabulary's hold.
C26_FrameAdvance ==
    /\ [](~decode_step.called => t = 0 /\ emitted_tokens = 0)
    /\ [][ /\ t' >= t
           /\ LoopStep =>
                 \A chosen \in {decode_step'.token} :
                     \A count \in {IF chosen = blank_idx THEN emitted_tokens
                                   ELSE emitted_tokens + 1} :
                         IF chosen = blank_idx \/ count = 10
                         THEN t' = t + 1 /\ emitted_tokens' = 0
                         ELSE t' = t /\ emitted_tokens' = count
           /\ ~LoopStep => t' = t ]_vars

\* The tenth token of frame 0 was chosen from logits with duration logits
\* behind them: the loop is on frame 1 with a count of 0.
C26_Witness ==
    /\ decode_pc = "loop"
    /\ t = 1
    /\ emitted_tokens = 0
    /\ Len(tokens) = 10
    /\ decode_step.token # blank_idx
    /\ Len(decode_step.probs) > Len(vocab)

\* C27: decode_sequence returns its lists exactly when the frame index is the
\* encoded length: it makes no step then and does not return them before;
\* it makes at most 10 * T decoder steps, whatever the joint-decoder
\* answers; no frame occurs more than 10 times among the timestamps and no
\* timestamp is T or more.
C27_Terminates ==
    /\ [](/\ decode_pc = "done" => t = encodings_len
          /\ t <= encodings_len
          /\ decode_calls <= 10 * encodings_len
          /\ \A i \in 1..Len(timestamps) :
                 /\ timestamps[i] < encodings_len
                 /\ Occurrences(timestamps[i]) <= 10)
    /\ [][ /\ decode_calls' # decode_calls => t < encodings_len
           /\ decode_pc' = "done" => decode_calls' = decode_calls ]_vars

\* A decode of one frame on which the joint-decoder never answered blank: it
\* ended after 10 steps with 10 tokens.
C27_Witness ==
    /\ decode_pc = "done"
    /\ encodings_len = 1
    /\ decode_calls = 10
    /\ Len(tokens) = 10
    /\ Occurrences(0) = 10

\* C28: the decoder state starts as zeros; a step whose chosen token is not
\* blank makes the state returned by that step the decoder state and appends
\* the token and the frame index; a step whose chosen token is blank leaves
\* state, tokens and timestamps as they are.
C28_StateCarried ==
    /\ [](~decode_step.called => prev_state = 0)
    /\ [][ LoopStep =>
             IF decode_step'.token # blank_idx
             THEN /\ prev_state' = decode_step'.new_state
                  /\ tokens' = Append(tokens, decode_step'.token)
                  /\ timestamps' = Append(timestamps, t)
             ELSE UNCHANGED <<prev_state, tokens, timestamps>> ]_vars

\* A blank step returned state 2 after a token had been emitted with state
\* 1: the decoder state is still 1.
C28_Witness ==
    /\ decode_step.called
    /\ decode_step.token = blank_idx
    /\ decode_step.probs # <<>>
    /\ decode_step.new_state = 2
    /\ prev_state = 1
    /\ Len(tokens) = 1

\* C29: the target given to the joint-decoder is blank_idx until a token has
\* been emitted and from then on the token emitted last, which is never the
\* blank; moving to the next frame does not reset it.
C29_TargetIsLastToken ==
    /\ [](\A i \in 1..Len(tokens) : tokens[i] # blank_idx)
    /\ [][ decode_calls' # decode_calls =>
             decode_step'.target =
                 IF tokens = <<>> THEN blank_idx ELSE tokens[Len(tokens)] ]_vars

\* One token was emitted on frame 0; the last step, on frame 1, still had
\* it as its target.
C29_Witness ==
    /\ encodings_len = 2
    /\ t = 2
    /\ timestamps = <<0>>
    /\ decode_calls = 3
    /\ decode_step.target = tokens[1]
    /\ decode_pc = "loop"

\* C30: the chosen token is the argmax of the logits at the indices below
\* both L and V, an index below both (the blank if there are none): with
\* L > V the logits from V on take no part, with L = V all do.
\* Every emitted id is at least 0 and below V, and decode_tokens gives a
\* string for each emitted id.
C30_TokenInVocabulary ==
    /\ [](/\ \A i \in 1..Len(tokens) : 0 <= tokens[i] /\ tokens[i] < Len(vocab)
          /\ decode_pc = "done" => Len(decode_result.tokens) = Len(tokens))
    /\ [][ LoopStep =>
             \A chosen \in {decode_step'.token}, probs \in {decode_step'.probs} :
                 \A taking_part \in {Min(Len(probs), Len(vocab))} :
                     /\ chosen = argmax_token(SubSeq(probs, 1, taking_part), blank_idx)
                     /\ probs # <<>> => 0 <= chosen /\ chosen < taking_part ]_vars

\* A token was chosen from logits whose duration logits are the largest,
\* and the decode ended with a string for it.
C30_Witness ==
    /\ decode_pc = "done"
    /\ decode_step.called
    /\ Len(tokens) = 1
    /\ Len(decode_result.tokens) = 1
    /\ \E probs \in JointOutputs :
           /\ Len(probs) > Len(vocab)
           /\ \E i \in Len(vocab) + 1..Len(probs) : probs[i] > probs[tokens[1] + 1]

\* The logits at the indices below both L and V, the ones a token is chosen
\* from.
TakingPart(probs) == SubSeq(probs, 1, Min(Len(probs), Len(vocab)))

\* Positions of the logits that are not NaN.
Numbers(logits) == {i \in 1..Len(logits) : logits[i] # NaN}

\* Positions of the largest logits, a NaN being less than everything: the
\* largest numbers if there is a number, and every position otherwise.
Maximal(logits) ==
    IF Numbers(logits) = {} THEN 1..Len(logits)
    ELSE {i \in Numbers(logits) : \A j \in Numbers(logits) : logits[i] >= logits[j]}

\* C31: the chosen token is the index of a maximal vocabulary logit, the
\* lowest such index when several logits are maximal, and not the index of
\* a NaN while a logit that is not NaN exists.
C31_Claimed ==
    [][ (LoopStep /\ TakingPart(decode_step'.probs) # <<>>) =>
          \A logits \in {TakingPart(decode_step'.probs)} :
              /\ decode_step'.token + 1 \in Maximal(logits)
              /\ \A i \in Maximal(logits) : decode_step'.token + 1 <= i ]_vars

(***************************************************************************)
(* Engine facade (src/src/engines/parakeet/engine.rs,                      *)
(* src/src/engines/whisper.rs)                                             *)
(*                                                                         *)
(* An Option is the empty sequence (None) or a one-element sequence. A     *)
(* backend object is the record of what it was built from. backend_log     *)
(* lists, in order, the backend objects a call built, ran and dropped.     *)
(***************************************************************************)

EngineKinds == {"parakeet", "whisper"}

ModelPaths == {"models/a", "models/b"}

\* ParakeetModelParams { quantization }; WhisperModelParams is empty.
ModelParams(kind) ==
    IF kind = "parakeet"
    THEN {[quantization |-> "FP32"], [quantization |-> "Int8"]}
    ELSE {[quantization |-> "none"]}

\* How building the backend for a load ends: Parakeet builds one model,
\* Whisper a context and then a state from it.
LoadOutcomes(kind) ==
    IF kind = "parakeet" THEN {"ok", "model_failed"}
    ELSE {"ok", "context_failed", "state_failed"}

\* Sample vectors given to transcribe_samples.
EngineSamples == {<<>>, <<1>>}

\* How the inference of a ParakeetModel ends when it runs.
ParakeetOutcomes ==
    { [ok |-> TRUE, result |-> [text |-> <<"x">>, segments |-> <<SegA>>]],
      [ok |-> FALSE, error |-> "inference failed"] }

\* A segment as a WhisperState holds it after an inference: t0 and t1 count
\* hundredths of a second.
BackendSegment(t0, t1, text) == [t0 |-> t0, t1 |-> t1, text |-> text]

\* The segments a WhisperState can hold after an inference.
WhisperSegmentLists ==
    { <<>>,
      <<BackendSegment(0, 50, <<"a">>)>>,
      <<BackendSegment(0, 50, <<" ", "x">>), BackendSegment(50, 120, <<"y", " ">>)>> }

\* How the calls on a WhisperState end when the inference runs: state.full
\* fails, or it succeeds and the segments can all be read, or counting them
\* fails, or a getter of one of them fails.
WhisperOutcomes ==
    {[ends |-> "ok", segments |-> s] : s \in WhisperSegmentLists}
        \cup { [ends |-> "full_failed", error |-> "inference failed"],
               [ends |-> "count_failed", error |-> "count failed"],
               [ends |-> "segment_failed", error |-> "segment failed"] }

\* How inference ends when an engine of src/src/engines/ runs it.
InferenceOutcomes(kind) ==
    IF kind = "parakeet" THEN ParakeetOutcomes ELSE WhisperOutcomes

\* How inference ends when an engine of src/src/parakeet.rs or
\* src/src/whisper.rs runs it: the latter iterates over the segments of the
\* state, which makes no call that can fail.
LibInferenceOutcomes(kind) ==
    IF kind = "parakeet" THEN ParakeetOutcomes
    ELSE {o \in WhisperOutcomes : o.ends \in {"ok", "full_failed"}}

NOT_LOADED == "Model not loaded. Call load_model() first."

\* The fields of the engine value.
engine ==
    [ loaded_model_path |-> loaded_model_path, model |-> model,
      state |-> state, context |-> context ]

\* ParakeetEngine::new, WhisperEngine::new
new_engine ==
    [ loaded_model_path |-> <<>>, model |-> <<>>, state |-> <<>>, context |-> <<>> ]

\* The backend objects an engine value holds.
Held(e) == e.model \o e.context \o e.state

\* A backend object was built while the engine held `holding`.
Built(object, holding) == [event |-> "build", object |-> object, holding |-> holding]

Dropped(object) == [event |-> "drop", object |-> object]

Ran(object, input) == [event |-> "run", object |-> object, input |-> input]

\* Dropping the value an Option field held, when it is overwritten.
DropOption(option) == IF option = <<>> THEN <<>> ELSE <<Dropped(option[1])>>

\* A load that unloads the held model before it builds the new one.
parakeet_load_model_with_params_UnloadsFirst(e, model_path, params, outcome) ==
    LET quantized == params.quantization = "Int8"
        built     == [kind |-> "ParakeetModel", path |-> model_path,
                      quantized |-> quantized]
    IN  IF outcome = "ok"
        THEN [ engine   |-> [e EXCEPT !.model = <<built>>,
                                      !.loaded_model_path = <<model_path>>],
               returned |-> [ok |-> TRUE],
               log      |-> DropOption(e.model) \o <<Built(built, Held(e))>> ]
        ELSE [ engine   |-> [e EXCEPT !.model = <<>>, !.loaded_model_path = <<>>],
               returned |-> [ok |-> FALSE, error |-> outcome],
               log      |-> DropOption(e.model) \o <<Built(built, Held(e))>> ]

\* ParakeetEngine::load_model_with_params: the engine, the returned value and
\* the backend log afterwards. Built records what the engine held while the
\* new model was being built.
parakeet_load_model_with_params(e, model_path, params, outcome) ==
    LET quantized == params.quantization = "Int8"
        built     == [kind |-> "ParakeetModel", path |-> model_path,
                      quantized |-> quantized]
    IN  IF outcome = "ok"
        THEN [ engine   |-> [e EXCEPT !.model = <<built>>,
                                      !.loaded_model_path = <<model_path>>],
               returned |-> [ok |-> TRUE],
               log      |-> <<Built(built, Held(e))>> \o DropOption(e.model) ]
        ELSE [ engine   |-> e,
               returned |-> [ok |-> FALSE, error |-> outcome],
               log      |-> <<Built(built, Held(e))>> ]

\* ParakeetEngine::load_model (src/src/parakeet.rs): ParakeetModel::new(path)
\* of src/src/parakeet_engine.rs takes no quantization and opens
\* encoder-model.int8.onnx and decoder_joint-model.int8.onnx, the files of a
\* quantized model.
parakeet_load_model(e, model_path, outcome) ==
    LET built == [kind |-> "ParakeetModel", path |-> model_path, quantized |-> TRUE]
    IN  IF outcome = "ok"
        THEN [ engine   |-> [e EXCEPT !.model = <<built>>,
                                      !.loaded_model_path = <<model_path>>],
               returned |-> [ok |-> TRUE],
               log      |-> <<Built(built, Held(e))>> \o DropOption(e.model) ]
        ELSE [ engine   |-> e,
               returned |-> [ok |-> FALSE, error |-> outcome],
               log      |-> <<Built(built, Held(e))>> ]

\* A load that stores the context before it creates the state.
whisper_load_model_with_params_StoresContext(e, model_path, params, outcome) ==
    LET new_context == [kind |-> "WhisperContext", path |-> model_path]
        new_state   == [kind |-> "WhisperState", path |-> model_path]
    IN  IF outcome = "context_failed"
        THEN [ engine   |-> e,
               returned |-> [ok |-> FALSE, error |-> outcome],
               log      |-> <<Built(new_context, Held(e))>> ]
        ELSE IF outcome = "state_failed"
        THEN [ engine   |-> [e EXCEPT !.context = <<new_context>>],
               returned |-> [ok |-> FALSE, error |-> outcome],
               log      |-> <<Built(new_context, Held(e))>> \o DropOption(e.context)
                            \o <<Built(new_state, Held(e))>> ]
        ELSE [ engine   |-> [e EXCEPT !.context = <<new_context>>,
                                      !.state = <<new_state>>,
                                      !.loaded_model_path = <<model_path>>],
               returned |-> [ok |-> TRUE],
               log      |-> <<Built(new_context, Held(e)),
                              Built(new_state, Held(e))>>
                            \o DropOption(e.context) \o DropOption(e.state) ]

\* WhisperEngine::load_model_with_params
whisper_load_model_with_params(e, model_path, params, outcome) ==
    LET new_context == [kind |-> "WhisperContext", path |-> model_path]
        new_state   == [kind |-> "WhisperState", path |-> model_path]
    IN  IF outcome = "context_failed"
        THEN [ engine   |-> e,
               returned |-> [ok |-> FALSE, error |-> outcome],
               log      |-> <<Built(new_context, Held(e))>> ]
        ELSE IF outcome = "state_failed"
        THEN [ engine   |-> e,
               returned |-> [ok |-> FALSE, error |-> outcome],
               log      |-> <<Built(new_context, Held(e)),
                              Built(new_state, Held(e)),
                              Dropped(new_context)>> ]
        ELSE [ engine   |-> [e EXCEPT !.context = <<new_context>>,
                                      !.state = <<new_state>>,
                                      !.loaded_model_path = <<model_path>>],
               returned |-> [ok |-> TRUE],
               log      |-> <<Built(new_context, Held(e)),
                              Built(new_state, Held(e))>>
                            \o DropOption(e.context) \o DropOption(e.state) ]

\* An unload that forgets the path field.
parakeet_unload_model_KeepsPath(e) ==
    [ engine   |-> [e EXCEPT !.model = <<>>],
      returned |-> [ok |-> TRUE],
      log      |-> DropOption(e.model) ]

\* ParakeetEngine::unload_model; it returns ().
parakeet_unload_model(e) ==
    [ engine   |-> [e EXCEPT !.loaded_model_path = <<>>, !.model = <<>>],
      returned |-> [ok |-> TRUE],
      log      |-> DropOption(e.model) ]

\* WhisperEngine::unload_model
whisper_unload_model(e) ==
    [ engine   |-> [e EXCEPT !.loaded_model_path = <<>>, !.state = <<>>,
                             !.context = <<>>],
      returned |-> [ok |-> TRUE],
      log      |-> DropOption(e.state) \o DropOption(e.context) ]

\* ParakeetEngine::transcribe_samples: self.model.as_mut().ok_or(..) fails.
parakeet_model_missing(e) == e.model = <<>>

\* WhisperEngine::transcribe_samples: self.state.as_mut().ok_or(..) fails.
whisper_state_missing(e) == e.state = <<>>

\* A transcribe_samples that goes on to inference without the check.
parakeet_transcribe_samples_RunsAnyway(e, input, outcome) ==
    [ engine |-> e, returned |-> outcome, log |-> <<Ran(e.model, input)>> ]

\* ParakeetEngine::transcribe_samples
parakeet_transcribe_samples(e, input, outcome) ==
    IF parakeet_model_missing(e)
    THEN [ engine |-> e, returned |-> [ok |-> FALSE, error |-> NOT_LOADED],
           log |-> <<>> ]
    ELSE [ engine |-> e, returned |-> outcome, log |-> <<Ran(e.model[1], input)>> ]

\* A timestamp of the backend as the f32 a result carries: stamp as f32 when
\* divisor is 1, stamp as f32 / 100.0 when it is 100. The timestamps are
\* below 2^24 in magnitude, where the conversion to f32 is exact.
timestamp_f32(stamp, divisor) ==
    IF stamp = 0 THEN [sig |-> 0, exp |-> 0]
    ELSE LET magnitude == F32Quotient(Abs(stamp), divisor)
         IN  [sig |-> IF stamp < 0 THEN -magnitude.sig ELSE magnitude.sig,
              exp |-> magnitude.exp]

\* The TranscriptionResult WhisperEngine::transcribe_samples builds from the
\* segments of the state: each segment with its text as it is, and as the
\* text the segment texts put together, trimmed.
whisper_result(segments, divisor) ==
    [ text     |-> trim(join([i \in 1..Len(segments) |-> segments[i].text], <<>>)),
      segments |-> [i \in 1..Len(segments) |->
                      Segment(timestamp_f32(segments[i].t0, divisor),
                              timestamp_f32(segments[i].t1, divisor),
                              segments[i].text)] ]

\* WhisperEngine::transcribe_samples of src/src/engines/whisper.rs:
\* state.full(..)?, full_n_segments().expect(..), the getters of each
\* segment with `?`, and timestamps divided by 100.
whisper_transcribe_samples(e, input, outcome) ==
    IF whisper_state_missing(e)
    THEN [ engine |-> e, returned |-> [ok |-> FALSE, error |-> NOT_LOADED],
           log |-> <<>> ]
    ELSE [ engine   |-> e,
           returned |->
               IF outcome.ends = "count_failed"
               THEN [ok |-> FALSE,
                     panic |-> "failed to get number of segments: " \o outcome.error]
               ELSE IF outcome.ends # "ok"
               THEN [ok |-> FALSE, error |-> outcome.error]
               ELSE [ok |-> TRUE, result |-> whisper_result(outcome.segments, 100)],
           log      |-> <<Ran(e.state[1], input)>> ]

\* WhisperEngine::transcribe_samples of src/src/whisper.rs: state.full(..)?,
\* then the segments of state.as_iter() with their timestamps as they are.
whisper_rs_transcribe_samples(e, input, outcome) ==
    IF whisper_state_missing(e)
    THEN [ engine |-> e, returned |-> [ok |-> FALSE, error |-> NOT_LOADED],
           log |-> <<>> ]
    ELSE [ engine   |-> e,
           returned |->
               IF outcome.ends # "ok"
               THEN [ok |-> FALSE, error |-> outcome.error]
               ELSE [ok |-> TRUE, result |-> whisper_result(outcome.segments, 1)],
           log      |-> <<Ran(e.state[1], input)>> ]

\* The segment ParakeetEngine::transcribe_samples of src/src/parakeet.rs
\* returns, whatever the model found.
PLACEHOLDER_SEGMENT == Segment(0, 0, <<"TODO: Implement Parakeet transcription">>)

\* ParakeetEngine::transcribe_samples of src/src/parakeet.rs, the engine
\* that implements the TranscriptionEngine of src/src/lib.rs: a failing
\* inference panics in .expect("failed to transcribe"), and a result carries
\* the text of the model and the placeholder segment.
parakeet_rs_transcribe_samples(e, input, outcome) ==
    IF parakeet_model_missing(e)
    THEN [ engine |-> e, returned |-> [ok |-> FALSE, error |-> NOT_LOADED],
           log |-> <<>> ]
    ELSE IF ~outcome.ok
    THEN [ engine   |-> e,
           returned |-> [ok |-> FALSE,
                         panic |-> "failed to transcribe: " \o outcome.error],
           log      |-> <<Ran(e.model[1], input)>> ]
    ELSE [ engine   |-> e,
           returned |-> [ok |-> TRUE,
                         result |-> [text |-> outcome.result.text,
                                     segments |-> <<PLACEHOLDER_SEGMENT>>]],
           log      |-> <<Ran(e.model[1], input)>> ]

\* A call has panicked: the thread unwinds and makes no further call.
Panicked == "panic" \in DOMAIN engine_returned

\* What an engine call leaves alone.
outside_engine == <<session_vars, wav_vars, vocab_vars, detok_vars, decode_vars, convert_vars, construct_vars, cli_vars>>

\* The engine after a call that ended as `after`.
EngineBecomes(call, after) ==
    /\ ~Panicked
    /\ engine_call' = call
    /\ loaded_model_path' = after.engine.loaded_model_path
    /\ model' = after.engine.model
    /\ state' = after.engine.state
    /\ context' = after.engine.context
    /\ engine_returned' = after.returned
    /\ backend_log' = after.log
    /\ UNCHANGED engine_kind
    /\ UNCHANGED outside_engine

LoadModelWithParams(model_path, params, outcome) ==
    /\ params \in ModelParams(engine_kind)
    /\ outcome \in LoadOutcomes(engine_kind)
    /\ EngineBecomes([op |-> "load_model_with_params", model_path |-> model_path,
                      params |-> params],
                     IF engine_kind = "parakeet"
                     THEN parakeet_load_model_with_params(engine, model_path, params, outcome)
                     ELSE whisper_load_model_with_params(engine, model_path, params, outcome))
    /\ ever_loaded' = (ever_loaded \/ outcome = "ok")

\* load_model(path) of src/src/parakeet.rs and src/src/whisper.rs; the
\* latter builds the context and the state as load_model_with_params does.
LoadModel(model_path, outcome) ==
    /\ outcome \in LoadOutcomes(engine_kind)
    /\ EngineBecomes([op |-> "load_model", model_path |-> model_path],
                     IF engine_kind = "parakeet"
                     THEN parakeet_load_model(engine, model_path, outcome)
                     ELSE whisper_load_model_with_params(
                              engine, model_path, [quantization |-> "none"], outcome))
    /\ ever_loaded' = (ever_loaded \/ outcome = "ok")

UnloadModel ==
    /\ EngineBecomes([op |-> "unload_model"],
                     IF engine_kind = "parakeet"
                     THEN parakeet_unload_model(engine)
                     ELSE whisper_unload_model(engine))
    /\ UNCHANGED ever_loaded

TranscribeSamples(input, outcome) ==
    /\ outcome \in InferenceOutcomes(engine_kind)
    /\ EngineBecomes([op |-> "transcribe_samples", samples |-> input],
                     IF engine_kind = "parakeet"
                     THEN parakeet_transcribe_samples(engine, input, outcome)
                     ELSE whisper_transcribe_samples(engine, input, outcome))
    /\ UNCHANGED ever_loaded

\* ParakeetEngine::new() or WhisperEngine::new()
InitEngine ==
    /\ engine_kind \in EngineKinds
    /\ loaded_model_path = new_engine.loaded_model_path
    /\ model = new_engine.model
    /\ state = new_engine.state
    /\ context = new_engine.context
    /\ engine_call = [op |-> "none"]
    /\ engine_returned = [ok |-> TRUE]
    /\ backend_log = <<>>
    /\ ever_loaded = FALSE
    /\ SessionIdle /\ WavIdle /\ VocabIdle /\ DetokIdle /\ DecodeIdle /\ CliIdle /\ ConvertIdle /\ ConstructIdle

(***************************************************************************)
(* Properties of the engine facade                                         *)
(***************************************************************************)

\* The engine holds no model: the field transcribe_samples needs is None.
NoModelLoaded ==
    IF engine_kind = "parakeet" THEN model = <<>> ELSE state = <<>>

IsLoad(call) == call.op \in {"load_model", "load_model_with_params"}

\* C14: an engine on which no load has succeeded, or on which unload_model
\* was called last, holds no model; transcribe_samples on an engine that
\* holds no model returns the not-loaded error, runs no inference and leaves
\* the engine as it was.
C14_NotLoadedError ==
    [][ /\ (~ever_loaded' \/ engine_call'.op = "unload_model") => NoModelLoaded'
        /\ (engine_call'.op = "transcribe_samples" /\ NoModelLoaded) =>
              /\ engine_returned' = [ok |-> FALSE, error |-> NOT_LOADED]
              /\ backend_log' = <<>>
              /\ engine' = engine ]_vars

\* transcribe_samples failed with the not-loaded error on a Parakeet engine
\* that had loaded a model earlier and unloaded it.
C14_Witness ==
    /\ engine_kind = "parakeet"
    /\ ever_loaded
    /\ engine_call.op = "transcribe_samples"
    /\ engine_call.samples # <<>>
    /\ engine_returned = [ok |-> FALSE, error |-> NOT_LOADED]
    /\ backend_log = <<>>

\* C15: unload_model always returns and leaves the engine as new() builds
\* it, with no model and no path, whatever it held before; called again
\* right after, or on an engine that holds nothing, it has nothing to drop
\* and changes nothing.
C15_UnloadIdempotent ==
    [][ engine_call'.op = "unload_model" =>
          /\ engine' = new_engine
          /\ engine_returned' = [ok |-> TRUE]
          /\ backend_log' = [i \in 1..Len(backend_log') |->
                                Dropped(backend_log'[i].object)]
          /\ {backend_log'[i].object : i \in 1..Len(backend_log')}
                 = {Held(engine)[i] : i \in 1..Len(Held(engine))}
          /\ engine = new_engine => backend_log' = <<>> ]_vars

\* unload_model was called on a Parakeet engine that had loaded a model and
\* holds none any more: it dropped nothing and the engine is as new.
C15_Witness ==
    /\ engine_kind = "parakeet"
    /\ ever_loaded
    /\ engine_call.op = "unload_model"
    /\ backend_log = <<>>
    /\ engine = new_engine

\* The engine a successful call of the load `call` leaves when made on a new
\* engine.
LoadedOnce(kind, call) ==
    IF kind = "whisper"
    THEN whisper_load_model_with_params(new_engine, call.model_path,
                                        [quantization |-> "none"], "ok").engine
    ELSE IF call.op = "load_model"
    THEN parakeet_load_model(new_engine, call.model_path, "ok").engine
    ELSE parakeet_load_model_with_params(new_engine, call.model_path, call.params,
                                         "ok").engine

\* C16, as claimed: a load on an engine that holds a model unloads it first,
\* so nothing is held while the new backend objects are built; and the
\* engine after a successful load is the one a single load of that path
\* leaves.
C16_Claimed ==
    [][ (IsLoad(engine_call') /\ engine_returned'.ok) =>
          /\ \A i \in 1..Len(backend_log') :
                 backend_log'[i].event = "build" => backend_log'[i].holding = <<>>
          /\ engine' = LoadedOnce(engine_kind, engine_call') ]_vars

\* C16, amended: a successful load on an engine that holds a model builds
\* the new backend objects while the old ones are still held and drops each
\* old one afterwards, when the field is overwritten; and the engine after
\* a successful load is the one a single load of that path leaves.
C16_ReplacesAfterBuild ==
    [][ (IsLoad(engine_call') /\ engine_returned'.ok) =>
          LET builds == {i \in 1..Len(backend_log') : backend_log'[i].event = "build"}
              drops  == {i \in 1..Len(backend_log') : backend_log'[i].event = "drop"}
          IN  /\ builds # {}
              /\ \A i \in builds : backend_log'[i].holding = Held(engine)
              /\ \A i \in builds, j \in drops : i < j
              /\ {backend_log'[j].object : j \in drops}
                     = {Held(engine)[k] : k \in 1..Len(Held(engine))}
              /\ Cardinality(drops) = Len(Held(engine))
              /\ engine' = LoadedOnce(engine_kind, engine_call') ]_vars

\* A Parakeet engine that held the model of models/a loaded models/a again:
\* the new model was built first and the old one dropped after it.
C16_Witness ==
    /\ engine_kind = "parakeet"
    /\ IsLoad(engine_call)
    /\ engine_call.model_path = "models/a"
    /\ engine_returned.ok
    /\ Len(backend_log) = 2
    /\ backend_log[1].event = "build"
    /\ backend_log[1].holding = model
    /\ backend_log[2] = Dropped(model[1])

\* The fields that hold the model of an engine of this kind.
ModelFields ==
    IF engine_kind = "parakeet" THEN <<model>> ELSE <<context, state>>

\* C38: a load that fails leaves the engine exactly as it was, with the
\* model and path it held, or with none; and in every reachable state the
\* path is set if and only if a model is held.
C38_FailedLoadKeepsEngine ==
    /\ [](\A i \in 1..Len(ModelFields) :
              loaded_model_path # <<>> <=> ModelFields[i] # <<>>)
    /\ [][ (IsLoad(engine_call') /\ ~engine_returned'.ok) => engine' = engine ]_vars

\* A Whisper engine that holds the model of models/a failed to load
\* models/b when the state was created: it still holds models/a.
C38_Witness ==
    /\ engine_kind = "whisper"
    /\ IsLoad(engine_call)
    /\ engine_call.model_path = "models/b"
    /\ engine_returned = [ok |-> FALSE, error |-> "state_failed"]
    /\ loaded_model_path = <<"models/a">>
    /\ context = <<[kind |-> "WhisperContext", path |-> "models/a"]>>
    /\ state = <<[kind |-> "WhisperState", path |-> "models/a"]>>

(***************************************************************************)
(* Audio loader (src/src/audio.rs; src/src/lib.rs holds the same function) *)
(*                                                                         *)
(* The f32 a sample becomes is kept exactly, as the record of its          *)
(* significand and exponent: the number sig * 2^exp, with                  *)
(* 2^23 <= |sig| < 2^24, or sig = 0 and exp = 0 for zero.                  *)
(***************************************************************************)

\* Samples of the longest file.
MaxWavSamples == 2

I16_MAX == 32767

I16_MIN == -32768

\* i16 values a file can hold.
SampleValues == {I16_MIN, -I16_MAX, -1, 0, 1, 12345, I16_MAX}

\* hound::WavSpec values a file's header can carry.
WavSpecs ==
    [ channels        : {1, 2},
      sample_rate     : {16000, 44100},
      bits_per_sample : {16, 24},
      sample_format   : {"Int", "Float"} ]

\* Sample data of a file: all sequences of up to MaxWavSamples values.
RECURSIVE SampleData(_)
SampleData(n) ==
    IF n = 0 THEN {<<>>}
    ELSE SampleData(n - 1)
             \cup {Append(d, v) : d \in {x \in SampleData(n - 1) : Len(x) = n - 1},
                                  v \in SampleValues}

\* Files read_wav_samples can be given: one that cannot be opened, and files
\* with a header and data, whose data may fail to read part of the way.
WavFiles ==
    {[opens |-> FALSE]}
        \cup [ opens : {TRUE}, spec : WavSpecs, data : SampleData(MaxWavSamples),
               reads : BOOLEAN ]

\* read_wav_samples: s as f32 / i16::MAX as f32
normalize(s) ==
    IF s = 0 THEN [sig |-> 0, exp |-> 0]
    ELSE LET magnitude == F32Quotient(Abs(s), I16_MAX)
         IN  [sig |-> IF s < 0 THEN -magnitude.sig ELSE magnitude.sig,
              exp |-> magnitude.exp]

\* A check of the header that looks at the sample rate before the channels.
format_mismatch_RateFirst(spec) ==
    IF spec.sample_rate # 16000
    THEN <<"Expected " \o ToString(16000) \o " Hz sample rate, found "
               \o ToString(spec.sample_rate) \o " Hz">>
    ELSE IF spec.channels # 1
    THEN <<"Expected " \o ToString(1) \o " channels, found "
               \o ToString(spec.channels)>>
    ELSE IF spec.bits_per_sample # 16
    THEN <<"Expected " \o ToString(16) \o " bits per sample, found "
               \o ToString(spec.bits_per_sample)>>
    ELSE IF spec.sample_format # "Int"
    THEN <<"Expected Int sample format, found " \o spec.sample_format>>
    ELSE <<>>

\* read_wav_samples: the four checks of the header against expected_spec, in
\* the order of the source; the message of the first that fails, if any.
format_mismatch(spec) ==
    IF spec.channels # 1
    THEN <<"Expected " \o ToString(1) \o " channels, found "
               \o ToString(spec.channels)>>
    ELSE IF spec.sample_rate # 16000
    THEN <<"Expected " \o ToString(16000) \o " Hz sample rate, found "
               \o ToString(spec.sample_rate) \o " Hz">>
    ELSE IF spec.bits_per_sample # 16
    THEN <<"Expected " \o ToString(16) \o " bits per sample, found "
               \o ToString(spec.bits_per_sample)>>
    ELSE IF spec.sample_format # "Int"
    THEN <<"Expected Int sample format, found " \o spec.sample_format>>
    ELSE <<>>

\* read_wav_samples
read_wav_samples(file) ==
    IF ~file.opens
    THEN [called |-> TRUE, ok |-> FALSE, error |-> "hound: open failed"]
    ELSE IF format_mismatch(file.spec) # <<>>
    THEN [called |-> TRUE, ok |-> FALSE, error |-> format_mismatch(file.spec)[1]]
    ELSE IF ~file.reads
    THEN [called |-> TRUE, ok |-> FALSE, error |-> "hound: read failed"]
    ELSE [called |-> TRUE, ok |-> TRUE,
          samples |-> [i \in 1..Len(file.data) |-> normalize(file.data[i])]]

\* What the loader leaves alone.
outside_wav == <<session_vars, engine_vars, vocab_vars, detok_vars, decode_vars, convert_vars, construct_vars, cli_vars>>

\* A call of read_wav_samples on the file.
ReadWavSamples ==
    /\ ~wav_returned.called
    /\ wav_returned' = read_wav_samples(wav_file)
    /\ UNCHANGED wav_file
    /\ UNCHANGED outside_wav

InitWav ==
    /\ wav_file \in WavFiles
    /\ wav_returned = [called |-> FALSE]
    /\ SessionIdle /\ EngineIdle /\ VocabIdle /\ DetokIdle /\ DecodeIdle /\ CliIdle /\ ConvertIdle /\ ConstructIdle

NextWav == ReadWavSamples

SpecWav == InitWav /\ [][NextWav]_vars

\* Files given to transcribe_file: one that cannot be opened, one with two
\* channels, one whose data fails to read, an empty one and one of a sample.
EngineWavFiles ==
    LET mono   == [channels |-> 1, sample_rate |-> 16000, bits_per_sample |-> 16,
                   sample_format |-> "Int"]
        stereo == [mono EXCEPT !.channels = 2]
    IN  { [opens |-> FALSE],
          [opens |-> TRUE, spec |-> stereo, data |-> <<1>>, reads |-> TRUE],
          [opens |-> TRUE, spec |-> mono, data |-> <<1>>, reads |-> FALSE],
          [opens |-> TRUE, spec |-> mono, data |-> <<>>, reads |-> TRUE],
          [opens |-> TRUE, spec |-> mono, data |-> <<I16_MAX>>, reads |-> TRUE] }

\* transcribe_samples of the engines of src/src/parakeet.rs and
\* src/src/whisper.rs, which implement the TranscriptionEngine of
\* src/src/lib.rs.
lib_transcribe_samples(e, kind, input, outcome) ==
    IF kind = "parakeet"
    THEN parakeet_rs_transcribe_samples(e, input, outcome)
    ELSE whisper_rs_transcribe_samples(e, input, outcome)

\* TranscriptionEngine::transcribe_file of src/src/lib.rs:
\* read_wav_samples(wav_path)?, then self.transcribe_samples on the samples
\* read. `kind` is the engine's type.
transcribe_file(e, kind, file, outcome) ==
    LET read == read_wav_samples(file)
    IN  IF ~read.ok
        THEN [ engine |-> e, returned |-> [ok |-> FALSE, error |-> read.error],
               log |-> <<>> ]
        ELSE lib_transcribe_samples(e, kind, read.samples, outcome)

\* transcribe_samples called on an engine of src/src/parakeet.rs or
\* src/src/whisper.rs.
LibTranscribeSamples(input, outcome) ==
    /\ outcome \in LibInferenceOutcomes(engine_kind)
    /\ EngineBecomes([op |-> "transcribe_samples", samples |-> input,
                      trait |-> "src/src/lib.rs"],
                     lib_transcribe_samples(engine, engine_kind, input, outcome))
    /\ UNCHANGED ever_loaded

TranscribeFile(file, outcome) ==
    /\ outcome \in LibInferenceOutcomes(engine_kind)
    /\ EngineBecomes([op |-> "transcribe_file", wav_path |-> file],
                     transcribe_file(engine, engine_kind, file, outcome))
    /\ UNCHANGED ever_loaded

NextEngine ==
    \/ \E model_path \in ModelPaths,
          params \in ModelParams("parakeet") \cup ModelParams("whisper"),
          outcome \in LoadOutcomes("parakeet") \cup LoadOutcomes("whisper") :
           LoadModelWithParams(model_path, params, outcome)
    \/ \E model_path \in ModelPaths,
          outcome \in LoadOutcomes("parakeet") \cup LoadOutcomes("whisper") :
           LoadModel(model_path, outcome)
    \/ UnloadModel
    \/ \E input \in EngineSamples, outcome \in ParakeetOutcomes \cup WhisperOutcomes :
           TranscribeSamples(input, outcome)
    \/ \E input \in EngineSamples, outcome \in ParakeetOutcomes \cup WhisperOutcomes :
           LibTranscribeSamples(input, outcome)
    \/ \E file \in EngineWavFiles, outcome \in ParakeetOutcomes \cup WhisperOutcomes :
           TranscribeFile(file, outcome)

SpecEngine == InitEngine /\ [][NextEngine]_vars

(***************************************************************************)
(* Properties of the audio loader                                          *)
(***************************************************************************)

F32_ONE == [sig |-> 2^23, exp |-> -23]

F32_MINUS_ONE == [sig |-> -(2^23), exp |-> -23]

F32_ZERO == [sig |-> 0, exp |-> 0]

\* |x| <= 1.0 for an f32 kept as significand and exponent.
InUnitRange(x) ==
    x.sig = 0 \/ x.exp < -23 \/ (x.exp = -23 /\ Abs(x.sig) = 2^23)

\* C17, as claimed: every returned value is the f32 quotient of its sample
\* by 32767 and lies in [-1.0, 1.0]; i16::MAX gives exactly 1.0, i16::MIN
\* exactly -1.0 and 0 gives 0.0.
C17_Claimed ==
    (wav_returned.called /\ wav_returned.ok) =>
        /\ Len(wav_returned.samples) = Len(wav_file.data)
        /\ \A i \in 1..Len(wav_file.data) :
               LET s == wav_file.data[i]
                   x == wav_returned.samples[i]
               IN  /\ InUnitRange(x)
                   /\ s = I16_MAX => x = F32_ONE
                   /\ s = I16_MIN => x = F32_MINUS_ONE
                   /\ s = 0 => x = F32_ZERO

\* The message for the first field of the header, in the order channels,
\* sample rate, bits per sample, sample format, that differs from 1 channel,
\* 16000 Hz, 16 bits, integer format.
FirstMismatch(spec) ==
    CASE spec.channels # 1 ->
             "Expected 1 channels, found " \o ToString(spec.channels)
      [] spec.channels = 1 /\ spec.sample_rate # 16000 ->
             "Expected 16000 Hz sample rate, found "
                 \o ToString(spec.sample_rate) \o " Hz"
      [] spec.channels = 1 /\ spec.sample_rate = 16000 /\ spec.bits_per_sample # 16 ->
             "Expected 16 bits per sample, found " \o ToString(spec.bits_per_sample)
      [] OTHER -> "Expected Int sample format, found " \o spec.sample_format

ExpectedSpec ==
    [channels |-> 1, sample_rate |-> 16000, bits_per_sample |-> 16,
     sample_format |-> "Int"]

\* C18: for a file that opens with a header other than 1 channel, 16000 Hz,
\* 16 bits, integer format, read_wav_samples returns an error, and no
\* samples, that names the first differing field in the order channels,
\* sample rate, bits per sample, sample format, with the expected and the
\* found value.
C18_FormatMismatch ==
    (wav_returned.called /\ wav_file.opens /\ wav_file.spec # ExpectedSpec) =>
        wav_returned = [called |-> TRUE, ok |-> FALSE,
                        error |-> FirstMismatch(wav_file.spec)]

\* A stereo file at 44100 Hz was refused for its channels.
C18_Witness ==
    /\ wav_returned.called
    /\ wav_file.opens
    /\ wav_file.spec.channels = 2
    /\ wav_file.spec.sample_rate = 44100
    /\ wav_file.data # <<>>
    /\ ~wav_returned.ok
    /\ wav_returned.error = "Expected 1 channels, found 2"


(***************************************************************************)
(* Vocabulary loader (src/src/parakeet_engine.rs, load_vocab)              *)
(*                                                                         *)
(* A line of vocab.txt is a sequence of characters; U2581 stands for the   *)
(* character U+2581.                                                       *)
(***************************************************************************)

\* Lines of the longest vocab.txt.
MaxVocabLines == 3

I32_MAX == 2147483647

U2581 == "U+2581"

BLK == <<"<", "b", "l", "k", ">">>

\* Lines a vocab.txt can hold: well-formed ones, with and without "<blk>",
\* and ones that do not parse (one part, empty or non-numeric id).
VocabLines ==
    { BLK \o <<" ", "0">>,
      BLK \o <<" ", "2">>,
      BLK \o <<" ", "+", "1">>,
      BLK \o <<" ", "1", " ", "9">>,
      BLK,
      BLK \o <<" ", "x">>,
      BLK \o <<" ", " ", "1">>,
      <<U2581, "a", " ", "1">>,
      <<"b", " ", "0", "3">>,
      <<>> }

\* The files: all sequences of up to n lines.
RECURSIVE VocabContents(_)
VocabContents(n) ==
    IF n = 0 THEN {<<>>}
    ELSE VocabContents(n - 1)
             \cup {Append(c, l) : c \in {x \in VocabContents(n - 1) : Len(x) = n - 1},
                                  l \in VocabLines}

\* vocab.txt as load_vocab finds it: unreadable, or readable with its lines.
VocabFiles ==
    {[readable |-> FALSE]}
        \cup [readable : {TRUE}, lines : VocabContents(MaxVocabLines)]

\* str::split(' '): the parts between the spaces, empty parts included.
RECURSIVE split(_, _)
split(line, part) ==
    IF line = <<>> THEN <<part>>
    ELSE IF Head(line) = " " THEN <<part>> \o split(Tail(line), <<>>)
    ELSE split(Tail(line), Append(part, Head(line)))

Digits == <<"0", "1", "2", "3", "4", "5", "6", "7", "8", "9">>

IsDigit(c) == \E d \in 1..10 : Digits[d] = c

DigitValue(c) == (CHOOSE d \in 1..10 : Digits[d] = c) - 1

RECURSIVE digits_value(_, _)
digits_value(digits, acc) ==
    IF digits = <<>> THEN acc
    ELSE digits_value(Tail(digits), 10 * acc + DigitValue(Head(digits)))

\* str::parse::<usize>: an optional "+" and one or more decimal digits; no
\* value (<<>>) for anything else.
parse_usize(part) ==
    LET digits == IF part # <<>> /\ Head(part) = "+" THEN Tail(part) ELSE part
    IN  IF digits # <<>> /\ \A i \in 1..Len(digits) : IsDigit(digits[i])
        THEN <<digits_value(digits, 0)>>
        ELSE <<>>

\* usize as i32
as_i32(id) == IF id <= I32_MAX THEN id ELSE id - I32_MAX - I32_MAX - 2

\* token.replace('\u{2581}', " ")
replace_2581(token) ==
    [i \in 1..Len(token) |-> IF token[i] = U2581 THEN " " ELSE token[i]]

\* load_vocab, the loop over the lines: max_id, tokens_with_ids and blank_idx
\* after the lines.
RECURSIVE read_lines(_, _)
read_lines(lines, acc) ==
    IF lines = <<>> THEN acc
    ELSE LET parts == split(Head(lines), <<>>)
             id    == IF Len(parts) >= 2 THEN parse_usize(parts[2]) ELSE <<>>
         IN  IF id = <<>> THEN read_lines(Tail(lines), acc)
             ELSE read_lines(Tail(lines),
                      [ max_id          |-> Max(acc.max_id, id[1]),
                        tokens_with_ids |-> Append(acc.tokens_with_ids,
                                                   <<parts[1], id[1]>>),
                        blank_idx       |-> IF parts[1] = BLK THEN id
                                            ELSE acc.blank_idx ])

\* load_vocab, the table: max_id + 1 empty strings, then each token written
\* at its id, later lines over earlier ones.
RECURSIVE vocab_table(_, _)
vocab_table(tokens_with_ids, table) ==
    IF tokens_with_ids = <<>> THEN table
    ELSE vocab_table(Tail(tokens_with_ids),
             [table EXCEPT ![Head(tokens_with_ids)[2] + 1] =
                               replace_2581(Head(tokens_with_ids)[1])])

\* A loader that takes id 0 for the blank when no line names it.
blank_or_error_DefaultsToZero(table, blank) ==
    [called |-> TRUE, ok |-> TRUE, vocab |-> table,
     blank_idx |-> IF blank = <<>> THEN 0 ELSE as_i32(blank[1])]

\* load_vocab: blank_idx.ok_or_else(..)? as i32, and the result
blank_or_error(table, blank) ==
    IF blank = <<>>
    THEN [called |-> TRUE, ok |-> FALSE,
          error |-> [kind |-> "Io",
                     message |-> "Missing <blk> token in vocabulary"]]
    ELSE [called |-> TRUE, ok |-> TRUE, vocab |-> table,
          blank_idx |-> as_i32(blank[1])]

\* load_vocab
load_vocab(file) ==
    IF ~file.readable
    THEN [called |-> TRUE, ok |-> FALSE,
          error |-> [kind |-> "Io", message |-> "read failed"]]
    ELSE LET read  == read_lines(file.lines,
                          [max_id |-> 0, tokens_with_ids |-> <<>>,
                           blank_idx |-> <<>>])
             table == vocab_table(read.tokens_with_ids,
                                  [i \in 1..(read.max_id + 1) |-> <<>>])
         IN  blank_or_error(table, read.blank_idx)

\* What the loader leaves alone.
outside_vocab == <<session_vars, engine_vars, wav_vars, detok_vars, decode_vars, convert_vars, construct_vars, cli_vars>>

\* A call of load_vocab on the model directory.
LoadVocab ==
    /\ ~vocab_returned.called
    /\ vocab_returned' = load_vocab(vocab_file)
    /\ UNCHANGED vocab_file
    /\ UNCHANGED outside_vocab

InitVocab ==
    /\ vocab_file \in VocabFiles
    /\ vocab_returned = [called |-> FALSE]
    /\ SessionIdle /\ EngineIdle /\ WavIdle /\ DetokIdle /\ DecodeIdle /\ CliIdle /\ ConvertIdle /\ ConstructIdle

NextVocab == LoadVocab

SpecVocab == InitVocab /\ [][NextVocab]_vars

(***************************************************************************)
(* Properties of the vocabulary loader                                     *)
(***************************************************************************)

\* The line is "<blk>", one space, an id of decimal digits (after an optional
\* "+"), and then the end of the line or a space: a parsed line with the
\* token "<blk>".
IsBlankLine(line, id) ==
    /\ Len(line) >= 7
    /\ SubSeq(line, 1, 6) = BLK \o <<" ">>
    /\ \E last \in 7..Len(line) :
           /\ last = Len(line) \/ line[last + 1] = " "
           /\ \A i \in 7..last : line[i] # " "
           /\ parse_usize(SubSeq(line, 7, last)) = <<id>>

\* Ids on the parsed "<blk>" lines of the file.
BlankIds(file) ==
    IF ~file.readable THEN {}
    ELSE {id \in 0..9 : \E n \in 1..Len(file.lines) : IsBlankLine(file.lines[n], id)}

\* C19: load_vocab fails whenever no parsed line has the token "<blk>"; when
\* it succeeds, blank_idx is the id on a "<blk>" line and is below the length
\* of the returned table.
C19_BlankRequired ==
    vocab_returned.called =>
        /\ BlankIds(vocab_file) = {} => ~vocab_returned.ok
        /\ vocab_returned.ok =>
               /\ vocab_returned.blank_idx \in BlankIds(vocab_file)
               /\ vocab_returned.blank_idx >= 0
               /\ vocab_returned.blank_idx < Len(vocab_returned.vocab)

\* A file with two "<blk>" lines and a line that does not parse was loaded;
\* the blank is the id of the later line, and the largest id of the file.
C19_Witness ==
    /\ vocab_returned.called
    /\ vocab_returned.ok
    /\ vocab_file.lines = << BLK \o <<" ", "0">>, BLK \o <<" ", "x">>,
                             BLK \o <<" ", "2">> >>
    /\ vocab_returned.blank_idx = 2
    /\ Len(vocab_returned.vocab) = 3

\* Positions of the spaces of a line.
Spaces(line) == {i \in 1..Len(line) : line[i] = " "}

\* The characters between the first space of a line and the next one.
IdPart(line) ==
    LET first == CHOOSE i \in Spaces(line) : \A j \in Spaces(line) : i <= j
        after == {j \in Spaces(line) : j > first}
        stop  == IF after = {} THEN Len(line) + 1
                 ELSE CHOOSE i \in after : \A j \in after : i <= j
    IN  SubSeq(line, first + 1, stop - 1)

\* A line that is not a token, a space and a non-negative integer id: it has
\* no space, or its id is empty or holds a character that is no digit.
Unparsable_line(line) ==
    \/ Spaces(line) = {}
    \/ IdPart(line) = <<>>
    \/ \E i \in 1..Len(IdPart(line)) : ~IsDigit(IdPart(line)[i])

\* C32: load_vocab fails with an InvalidVocab error when vocab.txt holds a
\* line that does not parse as a token, a space and a non-negative integer
\* id.
C32_Claimed ==
    (/\ vocab_returned.called
     /\ vocab_file.readable
     /\ \E n \in 1..Len(vocab_file.lines) : Unparsable_line(vocab_file.lines[n]))
        => /\ ~vocab_returned.ok
           /\ vocab_returned.error.kind = "InvalidVocab"


(***************************************************************************)
(* Detokenizer: the space-normalization rule applied to a text and then to *)
(* its own result (src/src/parakeet_engine.rs, decode_tokens)              *)
(***************************************************************************)

\* Characters of the longest text.
MaxTextLen == 5

\* Characters of a joined token text: two whitespace characters, a word
\* character and a character that is neither.
TextChars == {" ", "\t", "a", "."}

\* The texts: all sequences of up to n characters.
RECURSIVE Texts(_)
Texts(n) ==
    IF n = 0 THEN {<<>>}
    ELSE Texts(n - 1)
             \cup {Append(x, c) : x \in {y \in Texts(n - 1) : Len(y) = n - 1},
                                  c \in TextChars}

\* What the rule leaves alone.
outside_detok == <<session_vars, engine_vars, wav_vars, vocab_vars, decode_vars, convert_vars, construct_vars, cli_vars>>

\* decode_space_pattern.replace_all on the text, and then on what it gave.
ApplyRule ==
    /\ Len(detok_passes) < 2
    /\ detok_passes' =
           Append(detok_passes,
                  replace_all(IF detok_passes = <<>> THEN detok_text
                              ELSE detok_passes[Len(detok_passes)]))
    /\ UNCHANGED detok_text
    /\ UNCHANGED outside_detok

InitDetok ==
    /\ detok_text \in Texts(MaxTextLen)
    /\ detok_passes = <<>>
    /\ SessionIdle /\ EngineIdle /\ WavIdle /\ VocabIdle /\ DecodeIdle /\ CliIdle /\ ConvertIdle /\ ConstructIdle

NextDetok == ApplyRule

SpecDetok == InitDetok /\ [][NextDetok]_vars

(***************************************************************************)
(* Properties of the detokenizer                                           *)
(***************************************************************************)

\* C20, as claimed: for every text, those beginning with several whitespace
\* characters included, the rule applied twice gives what it gives applied
\* once.
C20_Claimed ==
    Len(detok_passes) = 2 => detok_passes[2] = detok_passes[1]

\* The text begins with two or more whitespace characters and a word
\* character directly after them.
SpacesThenWord(text) ==
    \E n \in 2..(Len(text) - 1) :
        /\ \A i \in 1..n : IsWhitespace(text[i])
        /\ IsWord(text[n + 1])

\* C20: for every text that does not begin with two or more whitespace
\* characters directly followed by a word character, the rule applied twice
\* gives what it gives applied once.
C20_IdempotentUnlessSpacesThenWord ==
    (Len(detok_passes) = 2 /\ ~SpacesThenWord(detok_text)) =>
        detok_passes[2] = detok_passes[1]

\* A text beginning with two whitespace characters, with a space to keep
\* later on, went through the rule twice.
C20_Witness ==
    /\ Len(detok_passes) = 2
    /\ detok_text = <<" ", "\t", ".", "\t", "a">>
    /\ ~SpacesThenWord(detok_text)
    /\ detok_passes[1] = <<".", " ", "a">>
    /\ detok_passes[2] = <<".", " ", "a">>


(***************************************************************************)
(* Timestamp converter (convert_timestamps, called by                      *)
(* ParakeetEngine::transcribe_samples). The times are f32 seconds in ticks *)
(* of 2^-30 s, as decode_tokens computes them.                             *)
(***************************************************************************)

\* Tokens of the longest result among those built from every token string.
MaxConvertTokens == 3

\* The token strings of a result: words that begin with a space, a
\* continuation, an unused table slot and a word ending in ".".
ConvertTokenStrings ==
    { <<" ", "a">>, <<"b">>, <<>>, <<" ", "b", ".">> }

\* Frames a token can have been emitted on.
ConvertFrames == {0, 1, 3}

TimestampGranularities == {"Token", "Word", "Segment"}

\* A TimestampedResult as decode_tokens builds it from token strings and
\* the frames they were emitted on.
timestamped_result(strings, frames) ==
    [ text       |-> replace_all(join(strings, <<>>)),
      timestamps |-> [i \in 1..Len(frames) |-> frame_seconds(frames[i])],
      tokens     |-> strings ]

\* All sequences of n elements of the set.
RECURSIVE SeqsOfLen(_, _)
SeqsOfLen(set, n) ==
    IF n = 0 THEN {<<>>}
    ELSE {Append(x, c) : x \in SeqsOfLen(set, n - 1), c \in set}

\* Five words, the fourth ending in a comma, on frames 0 to 4.
LongStrings ==
    << <<" ", "a">>, <<" ", "a">>, <<" ", "a">>, <<" ", "a", ",">>, <<" ", "a">> >>

\* Results convert_timestamps can be given: every result of up to
\* MaxConvertTokens tokens with one timestamp per token, in any order of
\* time; results with text but no timestamps; one five-word result.
ConvertInputs ==
    UNION { {timestamped_result(strings, frames) :
                 strings \in SeqsOfLen(ConvertTokenStrings, n),
                 frames \in SeqsOfLen(ConvertFrames, n)} : n \in 0..MaxConvertTokens }
        \cup {timestamped_result(strings, <<>>) :
                 strings \in SeqsOfLen(ConvertTokenStrings, 1)}
        \cup {timestamped_result(LongStrings, <<0, 1, 2, 3, 4>>)}

\* The duration of one encoder frame, 0.08 s, as an f32.
FRAME_SECONDS == frame_seconds(1)

\* The end given to the last token or word, as a converter that takes the
\* frame duration alone.
last_end_FrameOnly(start) == FRAME_SECONDS

\* Token and Word: the end of the last token or word, start + 0.08.
last_end(start) == F32(start + FRAME_SECONDS)

\* Token: one segment per non-empty token, from its timestamp to the next
\* token's timestamp.
RECURSIVE token_segments(_, _)
token_segments(result, i) ==
    IF i > Len(result.tokens) THEN <<>>
    ELSE IF result.tokens[i] = <<>> THEN token_segments(result, i + 1)
    ELSE << [ start |-> result.timestamps[i],
              end   |-> IF i < Len(result.timestamps)
                        THEN result.timestamps[i + 1]
                        ELSE last_end(result.timestamps[i]),
              text  |-> result.tokens[i] ] >>
             \o token_segments(result, i + 1)

\* Word: does a word begin at token i? At the first token, and at a token
\* whose raw string starts with a space.
begins_word(strings, i) ==
    i = 1 \/ (strings[i] # <<>> /\ strings[i][1] = " ")

\* Word: the index of the first token of the next word, one past the last
\* token when there is none.
next_word(strings, i) ==
    LET later == {j \in (i + 1)..Len(strings) : begins_word(strings, j)}
                     \cup {Len(strings) + 1}
    IN  CHOOSE j \in later : \A k \in later : j <= k

\* Word: the words from token i on.
RECURSIVE word_segments(_, _)
word_segments(result, i) ==
    IF i > Len(result.tokens) THEN <<>>
    ELSE LET j == next_word(result.tokens, i)
         IN  << [ start |-> result.timestamps[i],
                  end   |-> IF j <= Len(result.tokens)
                            THEN result.timestamps[j]
                            ELSE last_end(result.timestamps[Len(result.timestamps)]),
                  text  |-> trim_start(join(SubSeq(result.tokens, i, j - 1), <<>>)) ] >>
                 \o word_segments(result, j)

\* Segment: does the segment close at this word, the count-th of the segment?
closes_segment(word, count, is_final) ==
    \/ is_final
    \/ word.text # <<>> /\ word.text[Len(word.text)] \in {".", "?", "!"}
    \/ word.text # <<>> /\ word.text[Len(word.text)] = "," /\ count >= 4

\* Segment: the words of one segment as a segment.
segment_of(words) ==
    [ start |-> words[1].start,
      end   |-> words[Len(words)].end,
      text  |-> join([i \in 1..Len(words) |-> words[i].text], <<" ">>) ]

\* Segment: consecutive words grouped into segments.
RECURSIVE group_words(_, _, _)
group_words(words, i, current) ==
    IF i > Len(words) THEN <<>>
    ELSE LET held == Append(current, words[i])
         IN  IF closes_segment(words[i], Len(held), i = Len(words))
             THEN <<segment_of(held)>> \o group_words(words, i + 1, <<>>)
             ELSE group_words(words, i + 1, held)

\* convert_timestamps
convert_timestamps(result, granularity) ==
    IF result.tokens = <<>> THEN <<>>
    ELSE IF result.timestamps = <<>>
    THEN <<[start |-> 0, end |-> 0, text |-> result.text]>>
    ELSE CASE granularity = "Token" -> token_segments(result, 1)
           [] granularity = "Word" -> word_segments(result, 1)
           [] granularity = "Segment" ->
                  group_words(word_segments(result, 1), 1, <<>>)

\* What the converter leaves alone.
outside_convert ==
    <<session_vars, engine_vars, wav_vars, vocab_vars, detok_vars, decode_vars, construct_vars, cli_vars>>

\* ParakeetEngine::transcribe_samples: the conversion of the model's result
\* at the granularity of the inference parameters.
ConvertTimestamps(granularity) ==
    /\ ~convert_returned.called
    /\ convert_returned' =
           [ called      |-> TRUE,
             granularity |-> granularity,
             segments    |-> convert_timestamps(convert_input, granularity) ]
    /\ UNCHANGED convert_input
    /\ UNCHANGED outside_convert

InitConvert ==
    /\ convert_input \in ConvertInputs
    /\ convert_returned = [called |-> FALSE]
    /\ SessionIdle /\ EngineIdle /\ WavIdle /\ VocabIdle /\ DetokIdle /\ DecodeIdle /\ CliIdle /\ ConstructIdle

NextConvert == \E granularity \in TimestampGranularities : ConvertTimestamps(granularity)

SpecConvert == InitConvert /\ [][NextConvert]_vars

(***************************************************************************)
(* Properties of the timestamp converter                                   *)
(***************************************************************************)

\* C21: for each granularity and every result with as many timestamps as
\* tokens and non-decreasing timestamps, every returned segment has
\* start <= end and the segments are in non-decreasing order of start; a
\* result without tokens gives no segment.
C21_SegmentsOrdered ==
    ( /\ convert_returned.called
      /\ Len(convert_input.tokens) = Len(convert_input.timestamps)
      /\ NonDecreasing(convert_input.timestamps) ) =>
        LET segments == convert_returned.segments
        IN  /\ \A i \in 1..Len(segments) : segments[i].start <= segments[i].end
            /\ \A i \in 1..(Len(segments) - 1) :
                   segments[i].start <= segments[i + 1].start
            /\ convert_input.tokens = <<>> => segments = <<>>

\* Three tokens on frames 0, 1 and 3, the first word ending in ".", were
\* converted to two segments, the second ending 0.08 s after frame 3.
C21_Witness ==
    /\ convert_returned.called
    /\ convert_returned.granularity = "Segment"
    /\ convert_input.tokens = << <<" ", "b", ".">>, <<" ", "a">>, <<"b">> >>
    /\ convert_input.timestamps = <<0, frame_seconds(1), frame_seconds(3)>>
    /\ Len(convert_returned.segments) = 2
    /\ convert_returned.segments[2].start = frame_seconds(1)
    /\ convert_returned.segments[2].end > frame_seconds(3)
    /\ convert_returned.segments[2].text = <<"a", "b">>


(***************************************************************************)
(* Realtime CLI loop (src/src/bin/realtime_cli.rs, main)                   *)
(*                                                                         *)
(* A line of stdin is the sequence of its JSON lexemes and whitespace      *)
(* characters.                                                             *)
(***************************************************************************)

\* Lines of the longest stdin among those built from every line.
MaxLines == 2

TARGET_SAMPLE_RATE == 16000

DEFAULT_MAX_BUFFER_SECONDS == 300

LineReset == <<"{", "\"type\"", ":", "\"reset\"", "}">>

LineFlush == <<" ", "{", "\"type\"", ":", " ", "\"flush\"", "}", " ">>

LineChunk == <<"{", "\"type\"", ":", "\"chunk\"", ",", "\"samples\"", ":",
               "[", "1.0", "]", "}">>

LineEmptyChunk == <<"{", "\"type\"", ":", "\"chunk\"", ",", "\"samples\"", ":",
                    "[", "]", "}">>

\* A reset that carries samples, which the variant has no field for.
LineResetSamples == <<"{", "\"type\"", ":", "\"reset\"", ",", "\"samples\"", ":",
                      "[", "1.0", "]", "}">>

\* An unknown variant.
LineStop == <<"{", "\"type\"", ":", "\"stop\"", "}">>

\* A chunk without its samples.
LineNoSamples == <<"{", "\"type\"", ":", "\"chunk\"", "}">>

LineBlank == <<" ", "\t">>

\* What stdin.lock().lines() can yield: a line, or a read error (a line that
\* is not UTF-8, a failing descriptor).
StdinItems ==
    {[ok |-> TRUE, line |-> l] :
         l \in {LineReset, LineResetSamples, LineFlush, LineChunk, LineEmptyChunk,
                LineStop, LineNoSamples, LineBlank, <<>>}}
        \cup {[ok |-> FALSE]}

\* The stdin of a run: every sequence of up to MaxLines items, and two
\* longer conversations.
StdinContents ==
    UNION {SeqsOfLen(StdinItems, n) : n \in 0..MaxLines}
        \cup { [i \in 1..4 |-> [ok |-> TRUE,
                                line |-> <<LineChunk, LineStop, LineFlush, LineChunk>>[i]]],
               [i \in 1..4 |-> [ok |-> TRUE,
                                line |-> <<LineStop, LineBlank, LineChunk, LineReset>>[i]]] }

\* Results the loaded engine can return to the session.
CliResponses ==
    { [ok |-> TRUE, result |-> [text |-> <<"x">>, segments |-> <<SegA>>]],
      [ok |-> FALSE, error |-> "mock failure"] }

\* EngineChoice, as format!("{:?}", args.engine) prints it.
EngineChoices == {"Whisper", "Parakeet"}

OutboundReady(engine_name) == [type |-> "ready", engine |-> engine_name]

\* RealtimeSession::new
session_new(lang) ==
    with_sample_rate(lang, Usize(TARGET_SAMPLE_RATE), Usize(DEFAULT_MAX_BUFFER_SECONDS))

\* The numbers of a JSON array, among the lexemes between "[" and "]".
IsJsonNumber(lexeme) == lexeme \in {"1.0", "2.0", "3.0"}

JsonNumberValue(lexeme) ==
    CASE lexeme = "1.0" -> 1 [] lexeme = "2.0" -> 2 [] lexeme = "3.0" -> 3

RECURSIVE json_numbers(_)
json_numbers(lexemes) ==
    IF lexemes = <<>> THEN [ok |-> TRUE, values |-> <<>>]
    ELSE IF ~IsJsonNumber(lexemes[1]) THEN [ok |-> FALSE]
    ELSE IF Len(lexemes) = 1
    THEN [ok |-> TRUE, values |-> <<JsonNumberValue(lexemes[1])>>]
    ELSE IF lexemes[2] # "," \/ Len(lexemes) = 2 THEN [ok |-> FALSE]
    ELSE LET rest == json_numbers(SubSeq(lexemes, 3, Len(lexemes)))
         IN  IF rest.ok
             THEN [ok |-> TRUE,
                   values |-> <<JsonNumberValue(lexemes[1])>> \o rest.values]
             ELSE [ok |-> FALSE]

IsLexeme(c) == ~IsWhitespace(c)

\* serde_json::from_str::<InboundMessage>, for objects whose fields come in
\* the order type, samples, the samples an array of numbers. The tag picks
\* the variant: Chunk needs the samples, the unit variants Reset and Flush
\* take the object with or without them and ignore them. The display text
\* of a parse error is not modelled.
from_str(line) ==
    LET lexemes == SelectSeq(line, IsLexeme)
        n       == Len(lexemes)
        tag     == IF n >= 5 /\ SubSeq(lexemes, 1, 3) = <<"{", "\"type\"", ":">>
                   THEN lexemes[4] ELSE ""
        alone   == n = 5 /\ lexemes[5] = "}"
        sampled == /\ n >= 10
                   /\ SubSeq(lexemes, 5, 8) = <<",", "\"samples\"", ":", "[">>
                   /\ SubSeq(lexemes, n - 1, n) = <<"]", "}">>
                   /\ json_numbers(SubSeq(lexemes, 9, n - 2)).ok
    IN  IF tag = "\"reset\"" /\ (alone \/ sampled)
        THEN [ok |-> TRUE, message |-> [type |-> "reset"]]
        ELSE IF tag = "\"flush\"" /\ (alone \/ sampled)
        THEN [ok |-> TRUE, message |-> [type |-> "flush"]]
        ELSE IF tag = "\"chunk\"" /\ sampled
        THEN [ok |-> TRUE,
              message |-> [type |-> "chunk",
                           samples |-> json_numbers(SubSeq(lexemes, 9, n - 2)).values]]
        ELSE [ok |-> FALSE, error |-> "serde_json::Error"]

\* main: line.trim().is_empty()
is_blank(line) == trim(line) = <<>>

\* What main leaves alone.
outside_cli ==
    <<engine_vars, wav_vars, vocab_vars, detok_vars, decode_vars, convert_vars, construct_vars>>

\* main up to the loop: the engine is created and loads the model, the
\* ready message is written and the session is created. A failing load or
\* write ends main with the error.
CliStart(engine_name, lang, loads, writes) ==
    /\ cli_pc = "start"
    /\ IF loads /\ writes
       THEN LET new == session_new(lang)
            IN  /\ stdout' = <<[line |-> 0, message |-> OutboundReady(engine_name)]>>
                /\ language' = new.language
                /\ samples' = new.samples
                /\ sample_rate' = UsizeValue(new.sample_rate)
                /\ max_buffer_samples' = UsizeValue(new.max_buffer_samples)
                /\ timeline_offset' = new.timeline_offset
                /\ published_segments' = new.published_segments
                /\ published_text' = new.published_text
                /\ last_sent_segments' = new.last_sent_segments
                /\ last_sent_text' = new.last_sent_text
                /\ cli_pc' = "read"
       ELSE /\ cli_pc' = "failed"
            /\ UNCHANGED <<stdout, session>>
    /\ UNCHANGED <<inbound, response, outbound, calls, ingested, last_emitted,
                   failed, returned>>
    /\ UNCHANGED <<stdin, cli_line, cli_message, cli_pending, cli_before>>
    /\ UNCHANGED outside_cli

\* main, the loop: stdin has ended; main returns Ok.
ReadEnd ==
    /\ cli_pc = "read"
    /\ stdin = <<>>
    /\ cli_pc' = "exited"
    /\ UNCHANGED <<stdin, cli_line, cli_message, cli_pending, stdout, cli_before>>
    /\ UNCHANGED <<session_vars, outside_cli>>

\* The bookkeeping of reading one item of stdin.
TakeLine ==
    /\ cli_pc = "read"
    /\ stdin # <<>>
    /\ stdin' = Tail(stdin)
    /\ cli_line' = [number |-> cli_line.number + 1, item |-> Head(stdin)]
    /\ cli_before' = session
    /\ UNCHANGED stdout
    /\ UNCHANGED <<session_vars, outside_cli>>

\* main, the loop: `line?` on a read error; main returns the error.
ReadFails ==
    /\ TakeLine
    /\ ~Head(stdin).ok
    /\ cli_pc' = "failed"
    /\ UNCHANGED <<cli_message, cli_pending>>

\* main, the loop: a blank line is skipped.
ReadBlank ==
    /\ TakeLine
    /\ Head(stdin).ok
    /\ is_blank(Head(stdin).line)
    /\ cli_pc' = "read"
    /\ UNCHANGED <<cli_message, cli_pending>>

\* main, the loop: the line parses; the message goes to the session.
ReadMessage ==
    /\ TakeLine
    /\ Head(stdin).ok
    /\ ~is_blank(Head(stdin).line)
    /\ from_str(Head(stdin).line).ok
    /\ cli_message' = from_str(Head(stdin).line).message
    /\ cli_pc' = "handle"
    /\ UNCHANGED cli_pending

\* A loop that returns the parse error, as `?` would.
ReadMalformed_Stops ==
    /\ TakeLine
    /\ Head(stdin).ok
    /\ ~is_blank(Head(stdin).line)
    /\ ~from_str(Head(stdin).line).ok
    /\ cli_pc' = "failed"
    /\ UNCHANGED <<cli_message, cli_pending>>

\* main, the loop: the line does not parse; an error message is to be
\* written.
ReadMalformed ==
    /\ TakeLine
    /\ Head(stdin).ok
    /\ ~is_blank(Head(stdin).line)
    /\ ~from_str(Head(stdin).line).ok
    /\ cli_pending' =
           <<OutboundError("failed to parse message: "
                               \o from_str(Head(stdin).line).error)>>
    /\ cli_pc' = "send"
    /\ UNCHANGED cli_message

\* send_message: the next response is written and flushed, or the write
\* fails and main returns the error.
SendMessage(writes) ==
    /\ cli_pc = "send"
    /\ cli_pending # <<>>
    /\ IF writes
       THEN /\ stdout' = Append(stdout, [line |-> cli_line.number,
                                         message |-> Head(cli_pending)])
            /\ cli_pending' = Tail(cli_pending)
            /\ cli_pc' = IF Tail(cli_pending) = <<>> THEN "read" ELSE "send"
       ELSE /\ cli_pc' = "failed"
            /\ UNCHANGED <<stdout, cli_pending>>
    /\ UNCHANGED <<stdin, cli_line, cli_message, cli_before>>
    /\ UNCHANGED <<session_vars, outside_cli>>

InitCli ==
    /\ cli_pc = "start"
    /\ stdin \in StdinContents
    /\ cli_line = [number |-> 0]
    /\ cli_message = [type |-> "none"]
    /\ cli_pending = <<>>
    /\ stdout = <<>>
    /\ cli_before = <<>>
    /\ SessionIdle /\ EngineIdle /\ WavIdle /\ VocabIdle /\ DetokIdle /\ DecodeIdle
    /\ ConvertIdle /\ ConstructIdle

NextCli ==
    \/ \E engine_name \in EngineChoices, lang \in Languages, loads, writes \in BOOLEAN :
           CliStart(engine_name, lang, loads, writes)
    \/ ReadEnd
    \/ ReadFails
    \/ ReadBlank
    \/ ReadMessage
    \/ ReadMalformed
    \/ \E incoming \in ChunkSamples, resp \in CliResponses : Chunk(incoming, resp)
    \/ Reset
    \/ Flush
    \/ \E writes \in BOOLEAN : SendMessage(writes)

SpecCli == InitCli /\ [][NextCli]_vars


(***************************************************************************)
(* Properties of the realtime CLI loop                                     *)
(***************************************************************************)

\* The messages written in answer to line number k, in the order written.
Answers(k) ==
    LET IsAnswer(entry) == entry.line = k
        entries == SelectSeq(stdout, IsAnswer)
    IN  [i \in 1..Len(entries) |-> entries[i].message]

\* The line read last was read without error.
LineRead == cli_line.number > 0 /\ cli_line.item.ok

\* The line read last does not parse as an inbound message.
Unparsable == LineRead /\ ~from_str(cli_line.item.line).ok

\* main has finished with the line read last: it is about to read the next
\* or has returned Ok at the end of stdin.
LineDone == cli_pc \in {"read", "exited"}

\* The ready message is the first message written, is written once, and
\* has been written when a line is read.
ReadyFirst ==
    /\ stdout # <<>> =>
           /\ stdout[1].line = 0
           /\ stdout[1].message.type = "ready"
           /\ \A i \in 2..Len(stdout) :
                  stdout[i].line > 0 /\ stdout[i].message.type # "ready"
    /\ cli_line.number > 0 => stdout # <<>>

\* Nothing is left to write when the next line is read; the messages stand
\* in the order of the lines they answer; a parsed line is answered by what
\* handle_inbound returned for it, in that order.
OutputsInInputOrder ==
    /\ cli_pc \in {"read", "handle", "exited"} => cli_pending = <<>>
    /\ \A i \in 1..(Len(stdout) - 1) : stdout[i].line <= stdout[i + 1].line
    /\ \A i \in 1..Len(stdout) : stdout[i].line <= cli_line.number
    /\ ( /\ LineDone /\ LineRead
         /\ ~is_blank(cli_line.item.line)
         /\ from_str(cli_line.item.line).ok ) =>
           /\ inbound = from_str(cli_line.item.line).message
           /\ Answers(cli_line.number) = outbound

\* C22, as claimed: after the model has loaded, every line that does not
\* parse as an inbound message produces exactly one error message, leaves
\* the session as it was and does not end the loop; the messages for one
\* line are written before the next is read, in the order of the lines; the
\* ready message is written once, first.
C22_Claimed ==
    /\ Unparsable =>
           /\ session = cli_before
           /\ cli_pc # "failed"
           /\ LineDone =>
                  /\ Len(Answers(cli_line.number)) = 1
                  /\ Answers(cli_line.number)[1].type = "error"
    /\ OutputsInInputOrder
    /\ ReadyFirst

\* C22: after the model has loaded, a line that is not blank and does not
\* parse produces exactly one error message and leaves the session as it
\* was, and main goes on to the next line unless writing that message
\* fails; a blank line is skipped without a message; the messages for one
\* line are written before the next is read, in the order of the lines; the
\* ready message is written once, first.
C22_MalformedLineAnswered ==
    /\ (Unparsable /\ ~is_blank(cli_line.item.line)) =>
           /\ session = cli_before
           /\ cli_pc \in {"send", "read", "exited", "failed"}
           /\ cli_pc \in {"send", "failed"} =>
                  /\ Answers(cli_line.number) = <<>>
                  /\ Len(cli_pending) = 1
                  /\ cli_pending[1].type = "error"
           /\ LineDone =>
                  /\ Len(Answers(cli_line.number)) = 1
                  /\ Answers(cli_line.number)[1].type = "error"
    /\ (LineRead /\ is_blank(cli_line.item.line)) =>
           /\ session = cli_before
           /\ LineDone
           /\ Answers(cli_line.number) = <<>>
    /\ OutputsInInputOrder
    /\ ReadyFirst

\* The second line of a conversation did not parse: its error message
\* stands after the transcript of the first line, and two lines are still
\* to be read.
C22_Witness ==
    /\ cli_pc = "read"
    /\ cli_line.number = 2
    /\ Unparsable
    /\ cli_line.item.line = LineStop
    /\ Len(stdin) = 2
    /\ Len(stdout) = 3
    /\ stdout[2] = [line |-> 1, message |-> OutboundTranscript(<<"a">>, <<SegA>>)]
    /\ stdout[3].line = 2
    /\ stdout[3].message.type = "error"
    /\ samples = <<1>>

\* ---------------------------------------------------------------------
\* Construction of a session
\* ---------------------------------------------------------------------

\* 2^32
TwoTo32 == <<0, 0, 4>>

\* Sample rates given to the constructor: 0, small rates, the default,
\* 46341 (whose square passes 2^31), 2^32 - 1, 2^32 and usize::MAX.
ConstructRates ==
    { Usize(0), Usize(1), Usize(2), Usize(TARGET_SAMPLE_RATE), Usize(46341),
      <<32767, 32767, 3>>, TwoTo32, USIZE_MAX }

\* Buffer durations, in seconds, given to the constructor: among them
\* 2^32 + 1, whose product with 2^32 - 1 is usize::MAX, and 2^32, whose
\* product with 2^32 is one more.
ConstructDurations ==
    { Usize(0), Usize(1), Usize(2), Usize(DEFAULT_MAX_BUFFER_SECONDS), Usize(46341),
      <<1, 0, 4>>, TwoTo32, USIZE_MAX }

\* The calls of the two constructors.
ConstructCalls ==
    [op : {"new"}, language : Languages]
        \cup [op : {"with_sample_rate"}, language : Languages,
              sample_rate : ConstructRates,
              max_buffer_duration_secs : ConstructDurations]

outside_construct ==
    <<session_vars, engine_vars, wav_vars, vocab_vars, detok_vars, decode_vars,
      convert_vars, cli_vars>>

\* RealtimeSession::new
ConstructNew ==
    /\ construct_call.op = "new"
    /\ ~constructed.called
    /\ constructed' = [called |-> TRUE, session |-> session_new(construct_call.language)]
    /\ UNCHANGED <<construct_call, outside_construct>>

\* RealtimeSession::with_sample_rate
ConstructWithSampleRate ==
    /\ construct_call.op = "with_sample_rate"
    /\ ~constructed.called
    /\ constructed' =
           [called  |-> TRUE,
            session |-> with_sample_rate(construct_call.language,
                                         construct_call.sample_rate,
                                         construct_call.max_buffer_duration_secs)]
    /\ UNCHANGED <<construct_call, outside_construct>>

InitConstruct ==
    /\ construct_call \in ConstructCalls
    /\ constructed = [called |-> FALSE]
    /\ SessionIdle /\ EngineIdle /\ WavIdle /\ VocabIdle /\ DetokIdle /\ DecodeIdle
    /\ ConvertIdle /\ CliIdle

NextConstruct == ConstructNew \/ ConstructWithSampleRate

SpecConstruct == InitConstruct /\ [][NextConstruct]_vars

\* The sample rate and the duration the constructor was called with.
GivenRate ==
    IF construct_call.op = "new" THEN Usize(16000) ELSE construct_call.sample_rate

GivenDuration ==
    IF construct_call.op = "new" THEN Usize(300)
    ELSE construct_call.max_buffer_duration_secs

\* C39: a constructed session has sample_rate = max(rate, 1) and
\* max_buffer_samples = max(rate, 1) * max(duration, 1), held at usize::MAX
\* where the product passes it, so max_buffer_samples >= 1 and a rate or a
\* duration of 0 counts as 1; RealtimeSession::new uses 16000 Hz and 300 s.
C39_BufferLimit ==
    constructed.called =>
        \A sr \in {IF GivenRate = Usize(0) THEN Usize(1) ELSE GivenRate},
           d \in {IF GivenDuration = Usize(0) THEN Usize(1) ELSE GivenDuration} :
            \A product \in {Product(sr, d)}, limit \in {constructed.session.max_buffer_samples} :
                /\ constructed.session.sample_rate = sr
                /\ limit = IF Less(USIZE_MAX, product) THEN USIZE_MAX ELSE product
                /\ ~Less(limit, Usize(1))
                /\ ~Less(USIZE_MAX, limit)
                \* products of single digits, by the multiplication of integers
                /\ (Len(sr) <= 1 /\ Len(d) <= 1) =>
                       UsizeValue(limit) = UsizeValue(sr) * UsizeValue(d)
                \* 46341 * 46341 = 2147488281 = 2 * 2^30 + 4633
                /\ (sr = Usize(46341) /\ d = Usize(46341)) => limit = <<4633, 0, 2>>
                \* (2^32 - 1) * (2^32 + 1) = 2^64 - 1, 2^32 * 2^32 = 2^64
                /\ (sr = <<32767, 32767, 3>> /\ d = <<1, 0, 4>>) => limit = USIZE_MAX
                /\ (sr = TwoTo32 /\ d = TwoTo32) => limit = USIZE_MAX
                /\ construct_call.op = "new" =>
                       /\ constructed.session.sample_rate = Usize(16000)
                       /\ limit = Usize(4800000)
                /\ constructed.session.samples = <<>>
                /\ constructed.session.language = construct_call.language

\* A session was built with a sample rate of 0 and a duration of 2^32 s: its
\* rate is 1 and its buffer holds 2^32 samples.
C39_Witness ==
    /\ constructed.called
    /\ construct_call.op = "with_sample_rate"
    /\ construct_call.sample_rate = Usize(0)
    /\ construct_call.max_buffer_duration_secs = TwoTo32
    /\ constructed.session.sample_rate = Usize(1)
    /\ constructed.session.max_buffer_samples = TwoTo32

====
